---- MODULE Spec2Model ----
(***************************************************************************)
(* Model of the command classifier and summarizer of codex-rs/core:        *)
(*   command_safety/is_safe_command.rs  (is_known_safe_command)            *)
(*   powershell_utils.rs                (PowerShell and cmd.exe helpers)   *)
(*   parse_command.rs                   (parse_command)                    *)
(*                                                                         *)
(* A Rust String is modelled as a sequence of one-character strings, an    *)
(* argv as a sequence of such sequences, Option<T> as a sequence of length *)
(* 0 (None) or 1 (Some), and a ParsedCommand as a record with the fields   *)
(* kind, cmd, name, path, query (absent fields are None).                  *)
(***************************************************************************)
EXTENDS Naturals, Integers, Sequences, FiniteSets, TLC

VARIABLES command, pc, safe, parsed

vars == <<command, pc, safe, parsed>>

(***************************************************************************)
(* Characters and strings                                                  *)
(***************************************************************************)

\* The backquote character (the one character a string literal cannot hold).
Backtick == "BACKTICK"

None == <<>>

Some(x) == <<x>>

Get(seq, i) == IF i \in DOMAIN seq THEN Some(seq[i]) ELSE None

\* A let binding: Let([x \in {e} |-> body]) is body with x standing for the value e
\* (a Rust `let x = e;`; e is evaluated once, where the binding stands).
Let(f) == f[CHOOSE x \in DOMAIN f : TRUE]

UpperSeq == <<"A","B","C","D","E","F","G","H","I","J","K","L","M","N","O","P","Q","R","S","T","U","V","W","X","Y","Z">>

LowerSeq == <<"a","b","c","d","e","f","g","h","i","j","k","l","m","n","o","p","q","r","s","t","u","v","w","x","y","z">>

AsciiUpper == {UpperSeq[i] : i \in DOMAIN UpperSeq}

AsciiLower == {LowerSeq[i] : i \in DOMAIN LowerSeq}

AsciiDigit == {"0", "1", "2", "3", "4", "5", "6", "7", "8", "9"}

Whitespace == {" ", "\t", "\n"}

LowerOf == [c \in AsciiUpper |-> LowerSeq[CHOOSE i \in DOMAIN UpperSeq : UpperSeq[i] = c]]

is_ascii_alphabetic(c) == c \in AsciiUpper \/ c \in AsciiLower

is_ascii_digit(c) == c \in AsciiDigit

is_ascii_alphanumeric(c) == is_ascii_alphabetic(c) \/ is_ascii_digit(c)

is_whitespace(c) == c \in Whitespace

to_ascii_lowercase(s) == [i \in 1..Len(s) |-> IF s[i] \in AsciiUpper THEN LowerOf[s[i]] ELSE s[i]]

eq_ignore_ascii_case(a, b) == to_ascii_lowercase(a) = to_ascii_lowercase(b)

AllChars(s, P(_)) == \A i \in 1..Len(s) : P(s[i])

AnyChar(s, P(_)) == \E i \in 1..Len(s) : P(s[i])

contains_char(s, c) == \E i \in 1..Len(s) : s[i] = c

starts_with(s, p) == Len(s) >= Len(p) /\ SubSeq(s, 1, Len(p)) = p

ends_with(s, p) == Len(s) >= Len(p) /\ SubSeq(s, Len(s) - Len(p) + 1, Len(s)) = p

contains(s, p) == \E i \in 1..(Len(s) - Len(p) + 1) : SubSeq(s, i, i + Len(p) - 1) = p

\* str::find: the 1-based index of the first occurrence of p in s, 0 when absent.
find(s, p) ==
    IF contains(s, p)
    THEN CHOOSE i \in 1..(Len(s) - Len(p) + 1) :
            /\ SubSeq(s, i, i + Len(p) - 1) = p
            /\ \A j \in 1..(i - 1) : SubSeq(s, j, j + Len(p) - 1) # p
    ELSE 0

\* The suffix of s that starts at 1-based index i.
From(s, i) == SubSeq(s, i, Len(s))

\* The first index at or after i whose character does not satisfy P (Len(s) + 1 if none).
skip_while(s, i, P(_)) ==
    IF i > Len(s) THEN i
    ELSE CHOOSE k \in i..(Len(s) + 1) :
             /\ k > Len(s) \/ ~P(s[k])
             /\ \A m \in i..(k - 1) : P(s[m])

trim_start(s) == From(s, skip_while(s, 1, is_whitespace))

trim_end(s) ==
    Let([keep \in {{k \in 1..Len(s) : ~is_whitespace(s[k])}} |->
    IF keep = {} THEN <<>> ELSE SubSeq(s, 1, CHOOSE k \in keep : \A m \in keep : m <= k)])

trim(s) == trim_end(trim_start(s))

\* str::trim_matches(c): strip every leading and trailing c.
trim_matches(s, c) ==
    Let([keep \in {{k \in 1..Len(s) : s[k] # c}} |->
    IF keep = {} THEN <<>>
    ELSE SubSeq(s, CHOOSE k \in keep : \A m \in keep : k <= m, CHOOSE k \in keep : \A m \in keep : m <= k)])

\* str::split(c): the pieces between occurrences of c (always at least one piece).
RECURSIVE split_char(_, _, _)
split_char(s, c, i) ==
    Let([e \in {skip_while(s, i, LAMBDA x : x # c)} |->
    <<SubSeq(s, i, e - 1)>> \o (IF e > Len(s) THEN <<>> ELSE split_char(s, c, e + 1))])

split(s, c) == split_char(s, c, 1)

\* str::split_whitespace: the maximal runs of non-whitespace characters.
RECURSIVE split_ws(_, _)
split_ws(s, i) ==
    Let([b \in {skip_while(s, i, is_whitespace)} |->
    Let([e \in {skip_while(s, b, LAMBDA x : ~is_whitespace(x))} |->
        IF b > Len(s) THEN <<>> ELSE <<SubSeq(s, b, e - 1)>> \o split_ws(s, e)])])

split_whitespace(s) == split_ws(s, 1)

\* str::replace(from, to) for a non-empty pattern: non-overlapping, left to right.
RECURSIVE replace(_, _, _)
replace(s, from, to) ==
    Let([p \in {find(s, from)} |->
    IF p = 0 THEN s ELSE SubSeq(s, 1, p - 1) \o to \o replace(From(s, p + Len(from)), from, to)])

\* The first index at or after i, outside single and double quotes, whose character
\* is in stops (Len(s) + 1 if none); position i is outside quotes. One step per
\* quoted string.
RECURSIVE next_unquoted(_, _, _)
next_unquoted(s, i, stops) ==
    Let([e \in {skip_while(s, i, LAMBDA c : c \notin stops /\ c \notin {"'", "\""})} |->
    IF e > Len(s) \/ s[e] \in stops THEN e
    ELSE Let([quote \in {s[e]} |->
         Let([close \in {skip_while(s, e + 1, LAMBDA c : c # quote)} |->
             IF close > Len(s) THEN close ELSE next_unquoted(s, close + 1, stops)])])])

\* [String]::join(sep)
RECURSIVE join(_, _)
join(words, sep) ==
    IF words = <<>> THEN <<>>
    ELSE IF Len(words) = 1 THEN words[1]
    ELSE words[1] \o sep \o join(Tail(words), sep)

(***************************************************************************)
(* The shlex crate: split and try_join                                     *)
(***************************************************************************)

\* Shlex::parse_single: characters up to the closing single quote, Err at the end.
RECURSIVE shlex_parse_single(_, _, _)
shlex_parse_single(s, i, word) ==
    IF i > Len(s) THEN [ok |-> FALSE, i |-> i, word |-> word]
    ELSE IF s[i] = "'" THEN [ok |-> TRUE, i |-> i + 1, word |-> word]
    ELSE shlex_parse_single(s, i + 1, Append(word, s[i]))

\* Shlex::parse_double: backslash escapes only dollar, backquote, double quote and backslash, and is dropped before a newline.
RECURSIVE shlex_parse_double(_, _, _)
shlex_parse_double(s, i, word) ==
    IF i > Len(s) THEN [ok |-> FALSE, i |-> i, word |-> word]
    ELSE IF s[i] = "\"" THEN [ok |-> TRUE, i |-> i + 1, word |-> word]
    ELSE IF s[i] = "\\"
         THEN IF i + 1 > Len(s) THEN [ok |-> FALSE, i |-> i + 1, word |-> word]
              ELSE IF s[i + 1] \in {"$", Backtick, "\"", "\\"}
                   THEN shlex_parse_double(s, i + 2, Append(word, s[i + 1]))
              ELSE IF s[i + 1] = "\n" THEN shlex_parse_double(s, i + 2, word)
              ELSE shlex_parse_double(s, i + 2, word \o <<"\\", s[i + 1]>>)
    ELSE shlex_parse_double(s, i + 1, Append(word, s[i]))

\* Shlex::parse_word: the word that starts at s[i]; i is left after the word's end.
RECURSIVE shlex_parse_word(_, _, _)
shlex_parse_word(s, i, word) ==
    IF i > Len(s) THEN [ok |-> TRUE, i |-> i, word |-> word]
    ELSE IF s[i] = "\""
         THEN Let([r \in {shlex_parse_double(s, i + 1, word)} |->
                  IF r.ok THEN shlex_parse_word(s, r.i, r.word) ELSE r])
    ELSE IF s[i] = "'"
         THEN Let([r \in {shlex_parse_single(s, i + 1, word)} |->
                  IF r.ok THEN shlex_parse_word(s, r.i, r.word) ELSE r])
    ELSE IF s[i] = "\\"
         THEN IF i + 1 > Len(s) THEN [ok |-> FALSE, i |-> i + 1, word |-> word]
              ELSE IF s[i + 1] = "\n" THEN shlex_parse_word(s, i + 2, word)
              ELSE shlex_parse_word(s, i + 2, Append(word, s[i + 1]))
    ELSE IF is_whitespace(s[i]) THEN [ok |-> TRUE, i |-> i + 1, word |-> word]
    ELSE shlex_parse_word(s, i + 1, Append(word, s[i]))

\* A comment runs from # at the start of a word to the end of the line.
RECURSIVE shlex_skip_comment(_, _)
shlex_skip_comment(s, i) ==
    IF i > Len(s) THEN i
    ELSE IF s[i] = "\n" THEN i + 1
    ELSE shlex_skip_comment(s, i + 1)

\* Shlex::next, collected: None (<<>>) on an unclosed quote or a trailing backslash.
RECURSIVE shlex_words(_, _, _)
shlex_words(s, i, acc) ==
    IF i > Len(s) THEN Some(acc)
    ELSE IF is_whitespace(s[i]) THEN shlex_words(s, i + 1, acc)
    ELSE IF s[i] = "#" THEN shlex_words(s, shlex_skip_comment(s, i + 1), acc)
    ELSE Let([r \in {shlex_parse_word(s, i, <<>>)} |->
             IF r.ok THEN shlex_words(s, r.i, Append(acc, r.word)) ELSE None])

shlex_split(s) == shlex_words(s, 1, <<>>)

\* shlex_split(s).unwrap_or_else(|| s.split_whitespace().collect())
shlex_split_or_whitespace(s) ==
    Let([r \in {shlex_split(s)} |->
                               IF r = None THEN split_whitespace(s) ELSE r[1]])

ShlexUnquotedOk == AsciiUpper \cup AsciiLower \cup AsciiDigit \cup {"+", "-", ".", "/", ":", "@", "]", "_"}

\* Quoter::quoting_strategy: the longest prefix of w starting at i that one strategy
\* (bare, single-quoted, double-quoted) can hold; n is the index after that prefix.
RECURSIVE quoting_strategy(_, _, _, _, _)
quoting_strategy(w, i, u, sq, dq) ==
    IF i > Len(w) THEN [n |-> i, u |-> u, sq |-> sq, dq |-> dq]
    ELSE Let([cu \in {u /\ w[i] \in ShlexUnquotedOk} |->
         Let([cs \in {sq /\ w[i] \notin {"'", "^", "\\"}} |->
         Let([cd \in {dq /\ w[i] \notin {Backtick, "$", "!", "^"}} |->
             IF ~cu /\ ~cs /\ ~cd THEN [n |-> i, u |-> u, sq |-> sq, dq |-> dq]
             ELSE quoting_strategy(w, i + 1, cu, cs, cd)])])])

\* Quoter::append_quoted_chunk for a double-quoted chunk: dollar, backquote, double quote and backslash get a backslash.
RECURSIVE shlex_escape_double(_)
shlex_escape_double(chunk) ==
    IF chunk = <<>> THEN <<>>
    ELSE (IF chunk[1] \in {"$", Backtick, "\"", "\\"} THEN <<"\\", chunk[1]>> ELSE <<chunk[1]>>)
         \o shlex_escape_double(Tail(chunk))

\* Quoter::quote, chunk by chunk (a leading ^ is only allowed after an opening ').
RECURSIVE shlex_quote_from(_, _)
shlex_quote_from(w, i) ==
    IF i > Len(w) THEN <<>>
    ELSE Let([st \in {IF w[i] = "^" THEN quoting_strategy(w, i + 1, FALSE, TRUE, FALSE)
                      ELSE quoting_strategy(w, i, TRUE, TRUE, TRUE)} |->
         Let([chunk \in {SubSeq(w, i, st.n - 1)} |->
             (IF st.u THEN chunk
              ELSE IF st.sq THEN <<"'">> \o chunk \o <<"'">>
              ELSE <<"\"">> \o shlex_escape_double(chunk) \o <<"\"">>)
             \o shlex_quote_from(w, st.n)])])

shlex_quote(w) == IF w = <<>> THEN <<"'","'">> ELSE shlex_quote_from(w, 1)

\* parse_command.rs shlex_join: the quoted words joined by single spaces (the model's
\* alphabet holds no NUL byte, so try_join never fails).
shlex_join(tokens) == join([i \in 1..Len(tokens) |-> shlex_quote(tokens[i])], <<" ">>)

(***************************************************************************)
(* command_safety/is_safe_command.rs                                       *)
(***************************************************************************)

\* The pipe alone: the operator tokens without the sequencing ones.
PipeOperator == {<<"|">>}

\* The tokens at which an argv, a token list or a script is cut into commands.
ExecOperators == {<<"|">>, <<"&","&">>, <<"|","|">>, <<";">>}

ExecRedirections == {<<">">>, <<">",">">>, <<"<">>, <<"|","&">>}

\* The loop that partitions tokens at separator tokens and keeps the non-empty parts
\* (is_safe_to_call_with_exec, split_on_connectors, shlex_fallback).
RECURSIVE split_tokens(_, _, _, _)
split_tokens(tokens, seps, i, current) ==
    IF i > Len(tokens) THEN (IF current = <<>> THEN <<>> ELSE <<current>>)
    ELSE IF tokens[i] \in seps
         THEN (IF current = <<>> THEN <<>> ELSE <<current>>) \o split_tokens(tokens, seps, i + 1, <<>>)
         ELSE split_tokens(tokens, seps, i + 1, Append(current, tokens[i]))

AllDigits(s) == \A i \in 1..Len(s) : is_ascii_digit(s[i])

\* The check cut after its first step: every argument that ends with p is accepted.
ends_with_p(arg) == arg # None /\ ends_with(arg[1], <<"p">>)

\* is_safe_command.rs: returns true if arg matches /^(\d+,)?\d+p$/
is_valid_sed_n_arg(arg) ==
    IF arg = None THEN FALSE
    ELSE Let([s \in {arg[1]} |->
         IF ~ends_with(s, <<"p">>) THEN FALSE
         ELSE Let([parts \in {split(SubSeq(s, 1, Len(s) - 1), ",")} |->
              IF Len(parts) = 1 THEN parts[1] # <<>> /\ AllDigits(parts[1])
              ELSE IF Len(parts) = 2
                   THEN parts[1] # <<>> /\ parts[2] # <<>> /\ AllDigits(parts[1]) /\ AllDigits(parts[2])
              ELSE FALSE])])

\* parse_command.rs: validates that this is a `sed -n 123,123p` command.
parse_command_is_valid_sed_n_arg(arg) ==
    IF arg = None THEN FALSE
    ELSE Let([s \in {arg[1]} |->
         Let([core \in {IF ends_with(s, <<"p">>) THEN Some(SubSeq(s, 1, Len(s) - 1)) ELSE None} |->
         IF core = None THEN FALSE
         ELSE Let([parts \in {split(core[1], ",")} |->
              IF Len(parts) = 1 THEN parts[1] # <<>> /\ AllDigits(parts[1])
              ELSE IF Len(parts) = 2
                   THEN parts[1] # <<>> /\ parts[2] # <<>> /\ AllDigits(parts[1]) /\ AllDigits(parts[2])
              ELSE FALSE])])])

SedShortFlags == {"n", "E", "r", "u", "s", "z"}

SedLongFlags == {<<"-","-","q","u","i","e","t">>, <<"-","-","s","i","l","e","n","t">>, <<"-","-","r","e","g","e","x","p","-","e","x","t","e","n","d","e","d">>, <<"-","-","u","n","b","u","f","f","e","r","e","d">>, <<"-","-","n","u","l","l","-","d","a","t","a">>}

\* The while loop of sed_flags_whitelisted from index i (1-based) on.
RECURSIVE sed_flags_from(_, _, _)
sed_flags_from(cmd, i, saw_expression) ==
    IF i > Len(cmd) THEN saw_expression
    ELSE Let([s \in {cmd[i]} |->
         IF ~starts_with(s, <<"-">>) THEN sed_flags_from(cmd, i + 1, saw_expression)
         ELSE IF s = <<"-","i">> \/ starts_with(s, <<"-","i">>) \/ starts_with(s, <<"-","-","i","n","-","p","l","a","c","e">>) THEN FALSE
         ELSE IF s = <<"-","f">> \/ s = <<"-","-","f","i","l","e">> \/ starts_with(s, <<"-","-","f","i","l","e","=">>) THEN FALSE
         ELSE IF s = <<"-","e">> \/ s = <<"-","-","e","x","p","r","e","s","s","i","o","n">> \/ starts_with(s, <<"-","-","e","x","p","r","e","s","s","i","o","n","=">>)
              THEN IF s = <<"-","e">>
                   THEN IF i + 1 > Len(cmd) THEN FALSE ELSE sed_flags_from(cmd, i + 2, TRUE)
                   ELSE sed_flags_from(cmd, i + 1, TRUE)
         ELSE IF s = <<"-","l">> \/ s = <<"-","-","l","i","n","e","-","l","e","n","g","t","h">> \/ starts_with(s, <<"-","-","l","i","n","e","-","l","e","n","g","t","h","=">>)
              THEN IF s = <<"-","l">> \/ s = <<"-","-","l","i","n","e","-","l","e","n","g","t","h">>
                   THEN IF i + 1 > Len(cmd) THEN FALSE
                        ELSE IF ~AllDigits(cmd[i + 1]) THEN FALSE
                        ELSE sed_flags_from(cmd, i + 2, saw_expression)
                   ELSE Let([num \in {From(s, find(s, <<"=">>) + 1)} |->
                        IF num = <<>> \/ ~AllDigits(num) THEN FALSE
                        ELSE sed_flags_from(cmd, i + 1, saw_expression)])
         ELSE IF s \in SedLongFlags THEN sed_flags_from(cmd, i + 1, saw_expression)
         ELSE IF Len(s) > 1 /\ \A k \in 2..Len(s) : s[k] \in SedShortFlags
              THEN sed_flags_from(cmd, i + 1, saw_expression)
         ELSE FALSE])

sed_flags_whitelisted(cmd) == sed_flags_from(cmd, 2, FALSE)

SafeHeads ==
    {<<"c","a","t">>, <<"c","d">>, <<"e","c","h","o">>, <<"f","a","l","s","e">>, <<"g","r","e","p">>, <<"h","e","a","d">>, <<"l","s">>, <<"n","l">>,
     <<"p","w","d">>, <<"t","a","i","l">>, <<"t","r","u","e">>, <<"w","c">>, <<"w","h","i","c","h">>}

\* The options of find that run a program: the list without -delete and the -f options.
FindOptionsThatExecute == {<<"-","e","x","e","c">>, <<"-","e","x","e","c","d","i","r">>, <<"-","o","k">>, <<"-","o","k","d","i","r">>}

UNSAFE_FIND_OPTIONS ==
    {<<"-","e","x","e","c">>, <<"-","e","x","e","c","d","i","r">>, <<"-","o","k">>, <<"-","o","k","d","i","r">>, <<"-","d","e","l","e","t","e">>,
     <<"-","f","l","s">>, <<"-","f","p","r","i","n","t">>, <<"-","f","p","r","i","n","t","0">>, <<"-","f","p","r","i","n","t","f">>}

\* The options of rg taking a program, without --hostname-bin.
RipgrepPreOnly == {<<"-","-","p","r","e">>}

UNSAFE_RIPGREP_OPTIONS_WITH_ARGS == {<<"-","-","p","r","e">>, <<"-","-","h","o","s","t","n","a","m","e","-","b","i","n">>}

UNSAFE_RIPGREP_OPTIONS_WITHOUT_ARGS == {<<"-","-","s","e","a","r","c","h","-","z","i","p">>, <<"-","z">>}

\* The git subcommands that list state, without those that print history.
GitStatusAndBranch == {<<"b","r","a","n","c","h">>, <<"s","t","a","t","u","s">>}

SafeGitSubcommands == {<<"b","r","a","n","c","h">>, <<"s","t","a","t","u","s">>, <<"l","o","g">>, <<"d","i","f","f">>, <<"s","h","o","w">>}

SafeBazelSubcommands == {<<"q","u","e","r","y">>, <<"a","q","u","e","r","y">>, <<"c","q","u","e","r","y">>, <<"i","n","f","o">>}

\* The strict form `sed -n {N|M,N}p [FILE]`.
sed_strict_ok(cmd) ==
    /\ Get(cmd, 2) = Some(<<"-","n">>)
    /\ is_valid_sed_n_arg(Get(cmd, 3))
    /\ \/ Len(cmd) = 3
       \/ Len(cmd) = 4 /\ cmd[4] # <<>>

\* The match on the head of an argv that holds no operator token.
safe_by_head(cmd) ==
    IF cmd = <<>> THEN FALSE
    ELSE Let([cmd0 \in {cmd[1]} |->
         IF cmd0 \in SafeHeads THEN TRUE
         ELSE IF cmd0 = <<"f","i","n","d">> THEN ~\E i \in 1..Len(cmd) : cmd[i] \in UNSAFE_FIND_OPTIONS
         ELSE IF cmd0 = <<"r","g">>
              THEN ~\E i \in 1..Len(cmd) :
                      \/ cmd[i] \in UNSAFE_RIPGREP_OPTIONS_WITHOUT_ARGS
                      \/ \E opt \in UNSAFE_RIPGREP_OPTIONS_WITH_ARGS :
                            cmd[i] = opt \/ starts_with(cmd[i], opt \o <<"=">>)
         ELSE IF cmd0 = <<"g","i","t">> THEN Len(cmd) >= 2 /\ cmd[2] \in SafeGitSubcommands
         ELSE IF cmd0 = <<"c","a","r","g","o">> THEN Get(cmd, 2) = Some(<<"c","h","e","c","k">>)
         ELSE IF cmd0 = <<"b","a","z","e","l">> THEN Len(cmd) >= 2 /\ cmd[2] \in SafeBazelSubcommands
         ELSE IF cmd0 = <<"s","e","d">> THEN (IF sed_strict_ok(cmd) THEN TRUE ELSE sed_flags_whitelisted(cmd))
         ELSE FALSE])

\* is_safe_to_call_with_exec: an argv with operator tokens is safe iff it holds no
\* redirection token and every non-empty part between the operators is safe.
RECURSIVE is_safe_to_call_with_exec(_)
is_safe_to_call_with_exec(cmd) ==
    IF \E i \in 1..Len(cmd) : cmd[i] \in ExecOperators
    THEN IF \E i \in 1..Len(cmd) : cmd[i] \in ExecRedirections THEN FALSE
         ELSE Let([parts \in {split_tokens(cmd, ExecOperators, 1, <<>>)} |->
              parts # <<>> /\ \A k \in 1..Len(parts) : is_safe_to_call_with_exec(parts[k])])
    ELSE safe_by_head(cmd)

(***************************************************************************)
(* crate::bash (not among the sources): the word-only command parser,      *)
(* modelled from its contract in the specification: the commands of a      *)
(* script made only of bare words and quoted strings, joined by && || ; |, *)
(* and None for a script that uses anything else.                          *)
(***************************************************************************)

BashWordBreak == {"|", "&", ";", "<", ">", "(", ")", "{", "}", "$", Backtick, "\\", "#", "'", "\""}

\* A quoted string from s[i] (after the opening quote q) to its closing quote; a double
\* quoted string with an expansion or an escape is not a plain string.
bash_quoted(s, i, q) ==
    Let([e \in {skip_while(s, i, LAMBDA c : c # q /\ ~(q = "\"" /\ c \in {"$", Backtick, "\\"}))} |->
    IF e <= Len(s) /\ s[e] = q THEN [ok |-> TRUE, i |-> e + 1, word |-> SubSeq(s, i, e - 1)]
    ELSE [ok |-> FALSE, i |-> e, word |-> SubSeq(s, i, e - 1)]])

\* A bare word from s[i] to the next whitespace or special character.
bash_bare(s, i) ==
    Let([e \in {skip_while(s, i, LAMBDA c : ~is_whitespace(c) /\ c \notin BashWordBreak)} |->
    [ok |-> TRUE, i |-> e, word |-> SubSeq(s, i, e - 1)]])

BashWordEnd(s, i) == i > Len(s) \/ is_whitespace(s[i]) \/ s[i] \in {"|", "&", ";"}

\* A leading NAME=... word is a variable assignment, not a command word.
bash_is_assignment_word(w) ==
    Let([eq \in {find(w, <<"=">>)} |->
    /\ eq > 1
    /\ is_ascii_alphabetic(w[1]) \/ w[1] = "_"
    /\ \A k \in 1..(eq - 1) : is_ascii_alphanumeric(w[k]) \/ w[k] = "_"])

\* The commands of the script from s[i] on: cur is the command being read, acc the
\* commands read so far; every operator stands between two non-empty commands.
RECURSIVE bash_commands(_, _, _, _)
bash_commands(s, i, cur, acc) ==
    IF i > Len(s) THEN (IF cur = <<>> THEN None ELSE Some(Append(acc, cur)))
    ELSE IF is_whitespace(s[i]) THEN bash_commands(s, skip_while(s, i, is_whitespace), cur, acc)
    ELSE IF s[i] \in {"|", "&", ";"}
         THEN Let([two \in {i + 1 <= Len(s) /\ s[i + 1] = s[i] /\ s[i] # ";"} |->
              Let([next \in {IF two THEN i + 2 ELSE i + 1} |->
                  IF cur = <<>> THEN None
                  ELSE IF s[i] = "&" /\ ~two THEN None
                  ELSE IF s[i] = "|" /\ ~two /\ i + 1 <= Len(s) /\ s[i + 1] = "&" THEN None
                  ELSE bash_commands(s, next, <<>>, Append(acc, cur))])])
    ELSE IF s[i] \in {"'", "\""}
         THEN Let([r \in {bash_quoted(s, i + 1, s[i])} |->
                  IF r.ok /\ BashWordEnd(s, r.i) THEN bash_commands(s, r.i, Append(cur, r.word), acc)
                  ELSE None])
    ELSE IF s[i] \in BashWordBreak THEN None
    ELSE Let([r \in {bash_bare(s, i)} |->
             IF ~BashWordEnd(s, r.i) THEN None
             ELSE IF cur = <<>> /\ bash_is_assignment_word(r.word) THEN None
             ELSE bash_commands(s, r.i, Append(cur, r.word), acc)])

\* try_parse_bash followed by try_parse_word_only_commands_sequence.
try_parse_word_only_commands_sequence(script) == bash_commands(script, 1, <<>>, <<>>)

\* parse_bash_lc_plain_commands: the commands of `bash -lc script` / `zsh -lc script`.
parse_bash_lc_plain_commands(cmd) ==
    IF Len(cmd) = 3 /\ cmd[1] \in {<<"b","a","s","h">>, <<"z","s","h">>} /\ cmd[2] = <<"-","l","c">>
    THEN try_parse_word_only_commands_sequence(cmd[3])
    ELSE None

(***************************************************************************)
(* is_safe_command.rs: helpers for the bash -lc fallback                   *)
(***************************************************************************)

is_pure_assignment(s) ==
    Let([eq \in {find(s, <<"=">>)} |->
    IF eq = 0 THEN FALSE
    ELSE IF /\ \A k \in 1..(eq - 1) :
                  IF k = 1 THEN is_ascii_alphabetic(s[k]) \/ s[k] = "_"
                  ELSE is_ascii_alphanumeric(s[k]) \/ s[k] = "_"
            /\ eq > 1
         THEN /\ ~contains_char(SubSeq(s, 1, eq - 1), " ")
              /\ From(s, eq + 1) # <<>>
              /\ ~contains_char(s, " ")
         ELSE FALSE])

has_assignment_prefix(s) ==
    Let([space \in {find(s, <<" ">>)} |->
    IF space > 0 THEN is_pure_assignment(SubSeq(s, 1, space - 1)) ELSE FALSE])

\* The loop of split_on_shell_operators, one step per operator: the trimmed pieces
\* between | && || ; outside quotes, and the empty vector for a standalone &.
RECURSIVE split_shell_ops(_, _, _)
split_shell_ops(s, i, parts) ==
    Let([e \in {next_unquoted(s, i, {"|", "&", ";"})} |->
    Let([buf \in {trim(SubSeq(s, i, e - 1))} |->
        IF e > Len(s) THEN (IF buf # <<>> THEN Append(parts, buf) ELSE parts)
        ELSE IF s[e] = "&"
             THEN IF e + 1 <= Len(s) /\ s[e + 1] = "&" THEN split_shell_ops(s, e + 2, Append(parts, buf))
                  ELSE <<>>
        ELSE split_shell_ops(s, e + 1, Append(parts, buf))])])

split_on_shell_operators(s) == split_shell_ops(s, 1, <<>>)

\* The scan for the ) that closes the $( whose body starts at s[i], one step per
\* parenthesis; 0 when there is none.
RECURSIVE matching_paren(_, _, _)
matching_paren(s, i, depth) ==
    Let([e \in {skip_while(s, i, LAMBDA c : c \notin {"(", ")"})} |->
    IF e > Len(s) THEN 0
    ELSE IF s[e] = "(" THEN matching_paren(s, e + 1, depth + 1)
    ELSE IF depth = 1 THEN e
    ELSE matching_paren(s, e + 1, depth - 1)])

\* The loop that vets and elides each $(...): ok is FALSE when a substitution is not
\* closed or its inner command is not safe; s is the script with every vetted
\* substitution replaced by SUBST.
RECURSIVE elide_substitutions(_)
elide_substitutions(s) ==
    Let([start \in {find(s, <<"$","(">>)} |->
    IF start = 0 THEN [ok |-> TRUE, s |-> s]
    ELSE Let([end \in {matching_paren(s, start + 2, 1)} |->
         IF end = 0 THEN [ok |-> FALSE, s |-> s]
         ELSE Let([inner \in {trim(SubSeq(s, start + 2, end - 1))} |->
              Let([inner_tokens \in {shlex_split_or_whitespace(inner)} |->
                  IF inner_tokens = <<>> \/ ~is_safe_to_call_with_exec(inner_tokens)
                  THEN [ok |-> FALSE, s |-> s]
                  ELSE elide_substitutions(SubSeq(s, 1, start - 1) \o <<"S","U","B","S","T">> \o From(s, end + 1))])])])])

\* The verdict on one segment of the elided script (TRUE for an empty segment).
bash_segment_ok(seg) ==
    Let([trimmed \in {trim(seg)} |->
    IF trimmed = <<>> THEN TRUE
    ELSE IF is_pure_assignment(trimmed) THEN TRUE
    ELSE IF has_assignment_prefix(trimmed) THEN FALSE
    ELSE Let([tokens \in {shlex_split_or_whitespace(trimmed)} |->
         tokens # <<>> /\ is_safe_to_call_with_exec(tokens)])])

is_bash_read_only_with_assignments(script) ==
    Let([e \in {elide_substitutions(script)} |->
    IF ~e.ok THEN FALSE
    ELSE Let([s \in {e.s} |->
         IF \E c \in {Backtick, "<", ">", "{", "}"} : contains_char(s, c) THEN FALSE
         ELSE IF contains_char(replace(s, <<"&","&">>, <<>>), "&") THEN FALSE
         ELSE Let([segments \in {split_on_shell_operators(s)} |->
              IF segments = <<>> THEN FALSE
              ELSE \A k \in 1..Len(segments) : bash_segment_ok(segments[k])])])])

(***************************************************************************)
(* parse_command.rs: records, token helpers and the per-head summariser    *)
(***************************************************************************)

Read(cmd, name, path) == [kind |-> "Read", cmd |-> cmd, name |-> Some(name), path |-> Some(path), query |-> None]

ListFiles(cmd, path) == [kind |-> "ListFiles", cmd |-> cmd, name |-> None, path |-> path, query |-> None]

Search(cmd, query, path) == [kind |-> "Search", cmd |-> cmd, name |-> None, path |-> path, query |-> query]

Unknown(cmd) == [kind |-> "Unknown", cmd |-> cmd, name |-> None, path |-> None, query |-> None]

Connectors == {<<"&","&">>, <<"|","|">>, <<"|">>, <<";">>}

contains_connectors(tokens) == \E i \in 1..Len(tokens) : tokens[i] \in Connectors

split_on_connectors(tokens) == split_tokens(tokens, Connectors, 1, <<>>)

trim_at_connector(tokens) ==
    IF contains_connectors(tokens)
    THEN SubSeq(tokens, 1, (CHOOSE i \in 1..Len(tokens) :
                               tokens[i] \in Connectors /\ \A j \in 1..(i - 1) : tokens[j] \notin Connectors) - 1)
    ELSE tokens

\* normalize_tokens: drop a leading `yes |` / `no |`, re-tokenise a bash/zsh -c/-lc script.
normalize_tokens(cmd) ==
    IF Len(cmd) >= 2 /\ cmd[1] \in {<<"y","e","s">>, <<"y">>, <<"n","o">>, <<"n">>} /\ cmd[2] = <<"|">>
    THEN SubSeq(cmd, 3, Len(cmd))
    ELSE IF Len(cmd) = 3 /\ cmd[1] \in {<<"b","a","s","h">>, <<"z","s","h">>} /\ cmd[2] \in {<<"-","c">>, <<"-","l","c">>}
         THEN Let([r \in {shlex_split(cmd[3])} |->
                                              IF r = None THEN cmd ELSE r[1]])
    ELSE cmd

ShortPathNoise == {<<"b","u","i","l","d">>, <<"d","i","s","t">>, <<"n","o","d","e","_","m","o","d","u","l","e","s">>, <<"s","r","c">>}

RECURSIVE trim_end_matches(_, _)
trim_end_matches(s, c) ==
    IF s # <<>> /\ s[Len(s)] = c THEN trim_end_matches(SubSeq(s, 1, Len(s) - 1), c) ELSE s

short_display_path(path) ==
    Let([normalized \in {[i \in 1..Len(path) |-> IF path[i] = "\\" THEN "/" ELSE path[i]]} |->
    Let([trimmed \in {trim_end_matches(normalized, "/")} |->
    Let([parts \in {split(trimmed, "/")} |->
    Let([keep \in {{i \in 1..Len(parts) : parts[i] # <<>> /\ parts[i] \notin ShortPathNoise}} |->
        IF keep = {} THEN trimmed
        ELSE parts[CHOOSE i \in keep : \A j \in keep : j <= i]])])])])

StartsDash(p) == p # <<>> /\ p[1] = "-"

\* skip_flag_values: drop the flags that take a value (and the value), and --flag=value.
RECURSIVE skip_flag_values_from(_, _, _)
skip_flag_values_from(args, flags_with_vals, i) ==
    IF i > Len(args) THEN <<>>
    ELSE Let([a \in {args[i]} |->
         IF a = <<"-","-">> THEN SubSeq(args, i + 1, Len(args))
         ELSE IF starts_with(a, <<"-","-">>) /\ contains_char(a, "=")
              THEN skip_flag_values_from(args, flags_with_vals, i + 1)
         ELSE IF a \in flags_with_vals
              THEN skip_flag_values_from(args, flags_with_vals, IF i + 1 <= Len(args) THEN i + 2 ELSE i + 1)
         ELSE <<a>> \o skip_flag_values_from(args, flags_with_vals, i + 1)])

skip_flag_values(args, flags_with_vals) == skip_flag_values_from(args, flags_with_vals, 1)

\* .filter(|p| !p.starts_with('-'))
non_flags_of(args) == SelectSeq(args, LAMBDA p : ~StartsDash(p))

\* .map(short_display_path) on an Option
map_short(opt) == IF opt = None THEN None ELSE Some(short_display_path(opt[1]))

is_pathish(s) ==
    \/ s = <<".">> \/ s = <<".",".">>
    \/ starts_with(s, <<".","/">>) \/ starts_with(s, <<".",".","/">>)
    \/ contains_char(s, "/") \/ contains_char(s, "\\")

FdFlagsWithValues == {<<"-","t">>, <<"-","-","t","y","p","e">>, <<"-","e">>, <<"-","-","e","x","t","e","n","s","i","o","n">>, <<"-","E">>, <<"-","-","e","x","c","l","u","d","e">>, <<"-","-","s","e","a","r","c","h","-","p","a","t","h">>}

\* parse_fd_query_and_path: <<query, path>>
parse_fd_query_and_path(tail) ==
    Let([non_flags \in {non_flags_of(skip_flag_values(trim_at_connector(tail), FdFlagsWithValues))} |->
    IF Len(non_flags) = 1
    THEN IF is_pathish(non_flags[1]) THEN <<None, Some(short_display_path(non_flags[1]))>>
         ELSE <<Some(non_flags[1]), None>>
    ELSE IF Len(non_flags) >= 2 THEN <<Some(non_flags[1]), Some(short_display_path(non_flags[2]))>>
    ELSE <<None, None>>])

FindQueryFlags == {<<"-","n","a","m","e">>, <<"-","i","n","a","m","e">>, <<"-","p","a","t","h">>, <<"-","r","e","g","e","x">>}

\* parse_find_query_and_path: <<query, path>>
parse_find_query_and_path(tail) ==
    Let([args \in {trim_at_connector(tail)} |->
    Let([roots \in {{i \in 1..Len(args) : ~StartsDash(args[i]) /\ args[i] \notin {<<"!">>, <<"(">>, <<")">>}}} |->
    Let([path \in {IF roots = {} THEN None
                   ELSE Some(short_display_path(args[CHOOSE i \in roots : \A j \in roots : i <= j]))} |->
    Let([flags \in {{i \in 1..Len(args) : args[i] \in FindQueryFlags}} |->
    Let([query \in {IF flags = {} THEN None
                    ELSE Get(args, (CHOOSE i \in flags : \A j \in flags : i <= j) + 1)} |->
        <<query, path>>])])])])])

LsFlagsWithValues ==
    {<<"-","I">>, <<"-","w">>, <<"-","-","b","l","o","c","k","-","s","i","z","e">>, <<"-","-","f","o","r","m","a","t">>, <<"-","-","t","i","m","e","-","s","t","y","l","e">>, <<"-","-","c","o","l","o","r">>, <<"-","-","q","u","o","t","i","n","g","-","s","t","y","l","e">>}

NlFlagsWithValues == {<<"-","s">>, <<"-","w">>, <<"-","v">>, <<"-","i">>, <<"-","b">>}

\* The fallback of the rg --files case: the first -g/--glob value, split or = form.
RECURSIVE rg_first_glob(_, _)
rg_first_glob(args, i) ==
    IF i > Len(args) THEN None
    ELSE Let([a \in {args[i]} |->
         Let([eq \in {find(a, <<"=">>)} |->
             IF a \in {<<"-","g">>, <<"-","-","g","l","o","b">>}
             THEN (IF i + 1 <= Len(args) THEN Some(args[i + 1]) ELSE rg_first_glob(args, i + 1))
             ELSE IF eq > 0 /\ SubSeq(a, 1, eq - 1) \in {<<"-","-","g","l","o","b">>, <<"-","g">>} THEN Some(From(a, eq + 1))
             ELSE rg_first_glob(args, i + 1)])])

\* strip_prefix('+').unwrap_or(n), then non-empty and all digits
tail_count_ok(n) ==
    Let([s \in {IF n # <<>> /\ n[1] = "+" THEN Tail(n) ELSE n} |->
                                                              s # <<>> /\ AllDigits(s)])

\* The head / tail arms: count_ok vets the value of -n.
summarize_head_tail(main_cmd, tail, count_ok(_)) ==
    Let([has_valid_n \in {
                IF tail = <<>> THEN FALSE
                ELSE IF tail[1] = <<"-","n">> THEN Len(tail) >= 2 /\ count_ok(tail[2])
                ELSE IF starts_with(tail[1], <<"-","n">>) THEN count_ok(From(tail[1], 3))
                ELSE FALSE} |->
    Let([candidates \in {
                IF tail # <<>> /\ tail[1] = <<"-","n">> /\ Len(tail) >= 2 /\ count_ok(tail[2])
                THEN SubSeq(tail, 3, Len(tail)) ELSE tail} |->
    Let([found \in {non_flags_of(candidates)} |->
        IF has_valid_n /\ found # <<>>
        THEN Read(shlex_join(main_cmd), short_display_path(found[1]), found[1])
        ELSE Unknown(shlex_join(main_cmd))])])])

summarize_main_tokens(main_cmd) ==
    IF main_cmd = <<>> THEN Unknown(shlex_join(main_cmd))
    ELSE Let([head \in {main_cmd[1]} |->
         Let([tail \in {Tail(main_cmd)} |->
         Let([cmd \in {shlex_join(main_cmd)} |->
         IF head = <<"l","s">>
         THEN ListFiles(cmd, map_short(Get(non_flags_of(skip_flag_values(tail, LsFlagsWithValues)), 1)))
         ELSE IF head = <<"r","g">>
         THEN Let([args \in {trim_at_connector(tail)} |->
              Let([has_files_flag \in {\E i \in 1..Len(args) : args[i] = <<"-","-","f","i","l","e","s">>} |->
              Let([non_flags \in {non_flags_of(skip_flag_values(args, {<<"-","g">>, <<"-","-","g","l","o","b">>}))} |->
                  IF has_files_flag
                  THEN Search(cmd, None,
                              IF non_flags # <<>> THEN Some(short_display_path(non_flags[1]))
                              ELSE rg_first_glob(args, 1))
                  ELSE Search(cmd, Get(non_flags, 1), map_short(Get(non_flags, 2)))])])])
         ELSE IF head = <<"f","d">>
         THEN Let([qp \in {parse_fd_query_and_path(tail)} |->
                                                         Search(cmd, qp[1], qp[2])])
         ELSE IF head = <<"f","i","n","d">>
         THEN Let([qp \in {parse_find_query_and_path(tail)} |->
                                                           Search(cmd, qp[1], qp[2])])
         ELSE IF head = <<"g","r","e","p">>
         THEN Let([non_flags \in {non_flags_of(trim_at_connector(tail))} |->
                  Search(cmd, Get(non_flags, 1), map_short(Get(non_flags, 2)))])
         ELSE IF head = <<"c","a","t">>
         THEN Let([effective_tail \in {IF tail # <<>> /\ tail[1] = <<"-","-">> THEN Tail(tail) ELSE tail} |->
                  IF Len(effective_tail) = 1
                  THEN Read(cmd, short_display_path(effective_tail[1]), effective_tail[1])
                  ELSE Unknown(cmd)])
         ELSE IF head = <<"h","e","a","d">> THEN summarize_head_tail(main_cmd, tail, AllDigits)
         ELSE IF head = <<"t","a","i","l">> THEN summarize_head_tail(main_cmd, tail, tail_count_ok)
         ELSE IF head = <<"n","l">>
         THEN Let([found \in {non_flags_of(skip_flag_values(tail, NlFlagsWithValues))} |->
                  IF found # <<>> THEN Read(cmd, short_display_path(found[1]), found[1]) ELSE Unknown(cmd)])
         ELSE IF head = <<"s","e","d">> /\ Len(tail) >= 3 /\ tail[1] = <<"-","n">> /\ parse_command_is_valid_sed_n_arg(Get(tail, 2))
         THEN Read(cmd, short_display_path(tail[3]), tail[3])
         ELSE Unknown(cmd)])])])

is_abs_like(path) ==
    \/ starts_with(path, <<"/">>)
    \/ Len(path) >= 3 /\ is_ascii_alphabetic(path[1]) /\ path[2] = ":" /\ path[3] = "\\"
    \/ Len(path) >= 2 /\ path[1] = "\\" /\ path[2] = "\\"

\* join_paths without the base: the operand as it stands.
join_nothing(base, rel) == rel

\* join_paths: PathBuf::push puts one separator between base and rel.
join_paths(base, rel) ==
    IF is_abs_like(rel) THEN rel
    ELSE IF base = <<>> THEN rel
    ELSE IF base[Len(base)] = "/" THEN base \o rel
    ELSE base \o <<"/">> \o rel

\* Unknown whose cmd shlex-splits to tokens with the given head
unknown_with_head(pcmd, head) ==
    /\ pcmd.kind = "Unknown"
    /\ Let([t \in {shlex_split(pcmd.cmd)} |->
                                         t # None /\ Get(t[1], 1) = Some(head)])

FirstIndex(n, P(_)) == CHOOSE i \in 1..n : P(i) /\ \A j \in 1..(i - 1) : ~P(j)

\* RemoveAt that also drops what follows the record.
RemoveFrom(seq, idx) == SubSeq(seq, 1, idx - 1)

RemoveAt(seq, idx) == SubSeq(seq, 1, idx - 1) \o SubSeq(seq, idx + 1, Len(seq))

\* simplify_once: None, or the sequence with one record removed.
simplify_once(commands) ==
    LET is_cd(i) == unknown_with_head(commands[i], <<"c","d">>) IN
    LET is_true(i) == commands[i].kind = "Unknown" /\ commands[i].cmd = <<"t","r","u","e">> IN
    LET is_nl(i) == 
            /\ commands[i].kind = "Unknown"
            /\ Let([t \in {shlex_split(commands[i].cmd)} |->
               /\ t # None
               /\ Get(t[1], 1) = Some(<<"n","l">>)
               /\ \A k \in 2..Len(t[1]) : StartsDash(t[1][k])]) IN
    Let([n \in {Len(commands)} |->
        IF n <= 1 THEN None
        ELSE IF unknown_with_head(commands[1], <<"e","c","h","o">>) THEN Some(Tail(commands))
        ELSE IF (\E i \in 1..n : is_cd(i)) /\ n > FirstIndex(n, is_cd)
             THEN Some(RemoveAt(commands, FirstIndex(n, is_cd)))
        ELSE IF \E i \in 1..n : is_true(i) THEN Some(RemoveAt(commands, FirstIndex(n, is_true)))
        ELSE IF \E i \in 1..n : is_nl(i) THEN Some(RemoveAt(commands, FirstIndex(n, is_nl)))
        ELSE None])

\* The loop cut after its first turn: simplify_once applied once.
simplify_one_turn(commands) ==
    Let([next \in {simplify_once(commands)} |-> IF next = None THEN commands ELSE next[1]])

\* while let Some(next) = simplify_once(&commands) { commands = next; }
RECURSIVE simplify(_)
simplify(commands) ==
    Let([next \in {simplify_once(commands)} |->
                                           IF next = None THEN commands ELSE simplify(next[1])])

(***************************************************************************)
(* powershell_utils.rs: utilities and constants                            *)
(***************************************************************************)

is_ps(s) == s \in {<<"p","o","w","e","r","s","h","e","l","l">>, <<"p","w","s","h">>, <<"p","o","w","e","r","s","h","e","l","l",".","e","x","e">>, <<"p","w","s","h",".","e","x","e">>}

PS_ALLOWED_CMDLETS ==
    {<<"g","e","t","-","c","o","n","t","e","n","t">>, <<"s","e","l","e","c","t","-","s","t","r","i","n","g">>, <<"g","e","t","-","c","h","i","l","d","i","t","e","m">>, <<"f","o","r","e","a","c","h","-","o","b","j","e","c","t">>,
     <<"m","e","a","s","u","r","e","-","o","b","j","e","c","t">>, <<"j","o","i","n","-","p","a","t","h">>, <<"w","h","e","r","e","-","o","b","j","e","c","t">>, <<"s","e","l","e","c","t","-","o","b","j","e","c","t">>,
     <<"t","e","s","t","-","p","a","t","h">>, <<"w","r","i","t","e","-","o","u","t","p","u","t">>, <<"w","r","i","t","e","-","h","o","s","t">>, <<"o","u","t","-","s","t","r","i","n","g">>, <<"%">>}

\* PS_BANNED_SUBSTRS without ">>" and ">", which the unquoted scan handles.
PS_BANNED_SUBSTRS ==
    {<<" ","s","e","t","-">>, <<" ","r","e","m","o","v","e","-">>, <<" ","n","e","w","-">>, <<" ","c","o","p","y","-">>, <<" ","m","o","v","e","-">>, <<" ","s","t","a","r","t","-">>, <<" ","s","t","o","p","-">>,
     <<" ","r","e","s","t","a","r","t","-">>, <<" ","i","n","v","o","k","e","-">>, <<" ","o","u","t","-">>, <<" ","a","d","d","-">>, <<" ","c","l","e","a","r","-">>, <<" ","w","r","i","t","e","-">>, <<" ","r","e","n","a","m","e","-">>,
     <<" ","s","e","t","-","c","o","n","t","e","n","t">>, <<" ","a","d","d","-","c","o","n","t","e","n","t">>, <<" ","n","e","w","-","i","t","e","m">>, <<" ","r","e","m","o","v","e","-","i","t","e","m">>, <<" ","s","e","t","-","a","c","l">>,
     <<" ","r","e","m","o","v","e","-","a","c","l">>}

PS_BANNED_ALIASES == {<<"r","m">>, <<"d","e","l">>, <<"r","m","d","i","r">>, <<"m","k","d","i","r">>}

PS_KEYWORDS_READ_ONLY ==
    {<<"f","o","r">>, <<"f","o","r","e","a","c","h">>, <<"i","f">>, <<"e","l","s","e","i","f">>, <<"e","l","s","e">>, <<"w","h","i","l","e">>, <<"s","w","i","t","c","h">>, <<"t","r","y">>,
     <<"c","a","t","c","h">>, <<"f","i","n","a","l","l","y">>}

\* The first loop of contains_banned_substring: a > outside single and double quotes.
unquoted_redirect(s) == next_unquoted(s, 1, {">"}) <= Len(s)

\* The second part of contains_banned_substring, on the lower-cased script.
banned_substring_in(lower) ==
    \E b \in PS_BANNED_SUBSTRS :
        IF b = <<" ","o","u","t","-">> THEN contains(lower, b) /\ ~contains(lower, <<" ","o","u","t","-","s","t","r","i","n","g">>)
        ELSE IF b = <<" ","w","r","i","t","e","-">>
             THEN contains(lower, b) /\ ~contains(lower, <<" ","w","r","i","t","e","-","o","u","t","p","u","t">>) /\ ~contains(lower, <<" ","w","r","i","t","e","-","h","o","s","t">>)
        ELSE contains(lower, b)

contains_banned_substring(script) ==
    IF unquoted_redirect(script) THEN TRUE
    ELSE banned_substring_in(to_ascii_lowercase(script))

\* split_top_level_segments without the quote flags: every ; and | splits.
split_at_every_delimiter(script) ==
    Let([parts \in {split([k \in 1..Len(script) |-> IF script[k] = "|" THEN ";" ELSE script[k]], ";")} |->
        SelectSeq([k \in 1..Len(parts) |-> trim(parts[k])], LAMBDA p : p # <<>>)])

\* The loop of split_top_level_segments, one step per segment.
RECURSIVE split_top_level_from(_, _)
split_top_level_from(s, i) ==
    Let([e \in {next_unquoted(s, i, {"|", ";"})} |->
    Let([current \in {trim(SubSeq(s, i, e - 1))} |->
        (IF current # <<>> THEN <<current>> ELSE <<>>)
        \o (IF e > Len(s) THEN <<>> ELSE split_top_level_from(s, e + 1))])])

split_top_level_segments(script) == split_top_level_from(script, 1)

\* The characters of a token without the quotes that open and close quoted strings.
RECURSIVE strip_quotes(_, _)
strip_quotes(raw, i) ==
    Let([open \in {skip_while(raw, i, LAMBDA c : c \notin {"'", "\""})} |->
    IF open > Len(raw) THEN From(raw, i)
    ELSE Let([quote \in {raw[open]} |->
         Let([close \in {skip_while(raw, open + 1, LAMBDA c : c # quote)} |->
             SubSeq(raw, i, open - 1) \o SubSeq(raw, open + 1, close - 1)
             \o (IF close > Len(raw) THEN <<>> ELSE strip_quotes(raw, close + 1))])])])

\* The loop of split_simple_tokens, one step per token: quotes are dropped, whitespace
\* and parentheses outside quotes end a token; the text after an unclosed quote is
\* never pushed.
RECURSIVE split_simple_from(_, _)
split_simple_from(s, i) ==
    Let([e \in {next_unquoted(s, i, {" ", "\t", "\n", "(", ")"})} |->
    Let([cur \in {strip_quotes(SubSeq(s, i, e - 1), 1)} |->
        IF e > Len(s) THEN <<>>
        ELSE (IF cur # <<>> THEN <<cur>> ELSE <<>>) \o split_simple_from(s, e + 1)])])

split_simple_tokens(seg) == split_simple_from(Append(seg, " "), 1)

IsIdentChar(c) == is_ascii_alphanumeric(c) \/ c = "_"

IsSpaceOrSemicolon(c) == is_whitespace(c) \/ c = ";"

EmptyMap == [n \in {} |-> <<>>]

\* ps_collect_simple_assignments: the loop from index i with the map built so far.
RECURSIVE ps_collect_from(_, _, _)
ps_collect_from(s, i0, map) ==
    IF i0 > Len(s) THEN map
    ELSE Let([i \in {skip_while(s, i0, IsSpaceOrSemicolon)} |->
         IF i > Len(s) \/ s[i] # "$"
         THEN Let([pos \in {find(From(s, i), <<";">>)} |->
              IF pos > 0 THEN ps_collect_from(s, i + pos, map) ELSE map])
         ELSE Let([start \in {i + 1} |->
              Let([j \in {skip_while(s, start, IsIdentChar)} |->
              IF j = start THEN ps_collect_from(s, i + 1, map)
              ELSE Let([name \in {SubSeq(s, start, j - 1)} |->
                   Let([k1 \in {skip_while(s, j, is_whitespace)} |->
                   IF k1 > Len(s) \/ s[k1] # "=" THEN ps_collect_from(s, j, map)
                   ELSE Let([k2 \in {skip_while(s, k1 + 1, is_whitespace)} |->
                        IF k2 > Len(s) THEN map
                        ELSE IF s[k2] \notin {"'", "\""} THEN ps_collect_from(s, k2, map)
                        ELSE Let([quote \in {s[k2]} |->
                             Let([k3 \in {skip_while(s, k2 + 1, LAMBDA c : c # quote)} |->
                             IF k3 > Len(s) THEN map
                             ELSE Let([value \in {SubSeq(s, k2 + 1, k3 - 1)} |->
                                  Let([k4 \in {skip_while(s, k3 + 1, LAMBDA c : c # ";")} |->
                                      ps_collect_from(s, IF k4 <= Len(s) THEN k4 + 1 ELSE k4,
                                                      (name :> value) @@ map)])])])])])])])])])])

ps_collect_simple_assignments(script) == ps_collect_from(script, 1, EmptyMap)

\* The loop of ps_strip_leading_assignments: the index where the rest of the script starts.
RECURSIVE ps_strip_from(_, _)
ps_strip_from(s, i0) ==
    Let([i \in {skip_while(s, i0, IsSpaceOrSemicolon)} |->
    IF i > Len(s) \/ s[i] # "$" THEN i
    ELSE Let([j \in {skip_while(s, i + 1, IsIdentChar)} |->
         Let([k1 \in {skip_while(s, j, is_whitespace)} |->
         IF k1 > Len(s) \/ s[k1] # "=" THEN i
         ELSE Let([k2 \in {skip_while(s, k1 + 1, is_whitespace)} |->
              IF k2 > Len(s) \/ s[k2] \notin {"'", "\""} THEN i
              ELSE Let([quote \in {s[k2]} |->
                   Let([k3 \in {skip_while(s, k2 + 1, LAMBDA c : c # quote)} |->
                   Let([k4 \in {IF k3 <= Len(s) THEN k3 + 1 ELSE k3} |->
                   Let([k5 \in {skip_while(s, k4, is_whitespace)} |->
                   Let([k6 \in {IF k5 <= Len(s) /\ s[k5] = ";" THEN k5 + 1 ELSE k5} |->
                       ps_strip_from(s, k6)])])])])])])])])])

\* ps_strip_leading_assignments: <<rest, assigns>>
ps_strip_leading_assignments(script) ==
    Let([assigns \in {ps_collect_simple_assignments(script)} |->
    IF DOMAIN assigns = {} THEN <<script, assigns>>
    ELSE <<From(script, ps_strip_from(script, 1)), assigns>>])

\* The loop shared by ps_substitute_vars (quote_values) and
\* ps_substitute_vars_preserving_style (not quote_values).
\* One step per dollar sign: the text up to the next one is copied unchanged.
RECURSIVE ps_substitute_from(_, _, _, _)
ps_substitute_from(input, assigns, i, quote_values) ==
    Let([d \in {skip_while(input, i, LAMBDA c : c # "$")} |->
    IF d > Len(input) THEN From(input, i)
    ELSE Let([j \in {skip_while(input, d + 1, IsIdentChar)} |->
         Let([name \in {SubSeq(input, d + 1, j - 1)} |->
         IF j > d + 1 /\ name \in DOMAIN assigns
         THEN Let([val \in {assigns[name]} |->
              Let([needs_quotes \in {\E c \in {"\\", " ", "\t", ";", "|"} : contains_char(val, c)} |->
                  SubSeq(input, i, d - 1)
                  \o (IF quote_values /\ needs_quotes
                      THEN <<"\"">> \o replace(val, <<"\"">>, <<"\\","\"">>) \o <<"\"">>
                      ELSE val)
                  \o ps_substitute_from(input, assigns, j, quote_values)])])
         ELSE SubSeq(input, i, d) \o ps_substitute_from(input, assigns, d + 1, quote_values)])])])

ps_substitute_vars(input, assigns) ==
    IF DOMAIN assigns = {} THEN input ELSE ps_substitute_from(input, assigns, 1, TRUE)

ps_substitute_vars_preserving_style(input, assigns) ==
    IF DOMAIN assigns = {} THEN input ELSE ps_substitute_from(input, assigns, 1, FALSE)

\* try_extract_powershell_command_script: the script after optional -NoLogo/-NoProfile
\* and -Command|-c.
try_extract_powershell_command_script(cmd) ==
    IF cmd = <<>> \/ ~is_ps(cmd[1]) THEN None
    ELSE Let([i \in {CHOOSE k \in 2..(Len(cmd) + 1) :
                        /\ \A m \in 2..(k - 1) : cmd[m] \in {<<"-","N","o","L","o","g","o">>, <<"-","N","o","P","r","o","f","i","l","e">>}
                        /\ k > Len(cmd) \/ cmd[k] \notin {<<"-","N","o","L","o","g","o">>, <<"-","N","o","P","r","o","f","i","l","e">>}} |->
             IF i + 1 <= Len(cmd) /\ cmd[i] \in {<<"-","C","o","m","m","a","n","d">>, <<"-","c">>} THEN Some(cmd[i + 1]) ELSE None])

(***************************************************************************)
(* powershell_utils.rs: parsing helpers                                    *)
(***************************************************************************)

take_while(s, i, P(_)) == SubSeq(s, i, skip_while(s, i, P) - 1)

IsFlagValueGap(c) == is_whitespace(c) \/ c = ":" \/ c = "="

remove_chars(s, set) == SelectSeq(s, LAMBDA c : c \notin set)

\* The capture loop of ps_extract_filenames: the index where the capture stops (an
\* unquoted | or ;, or a - that follows whitespace), one step per quoted string.
RECURSIVE ps_path_list_stop(_, _)
ps_path_list_stop(rest, i) ==
    LET plain(k) == /\ rest[k] \notin {"'", "\"", "|", ";"}
                    /\ ~(rest[k] = "-" /\ k > 1 /\ is_whitespace(rest[k - 1])) IN
    Let([e \in {IF i > Len(rest) THEN i
                ELSE CHOOSE k \in i..(Len(rest) + 1) :
                         /\ k > Len(rest) \/ ~plain(k)
                         /\ \A m \in i..(k - 1) : plain(m)} |->
    IF e > Len(rest) \/ rest[e] \notin {"'", "\""} THEN e
    ELSE Let([quote \in {rest[e]} |->
         Let([close \in {skip_while(rest, e + 1, LAMBDA c : c # quote)} |->
             IF close > Len(rest) THEN close ELSE ps_path_list_stop(rest, close + 1)])])])

ps_extract_filenames(script) ==
    Let([lower \in {to_ascii_lowercase(script)} |->
    LET ok(p) == /\ SubSeq(lower, p, p + 4) = <<"-","p","a","t","h">>
                 /\ p = 1 \/ ~(is_ascii_alphabetic(lower[p - 1]) \/ lower[p - 1] \in {"-", "_"}) IN
    Let([hits \in {{p \in 1..(Len(lower) - 4) : ok(p)}} |->
    IF hits = {} THEN <<>>
    ELSE Let([idx \in {CHOOSE p \in hits : \A q \in hits : p <= q} |->
         Let([after \in {From(script, idx + 5)} |->
         Let([rest \in {From(after, skip_while(after, 1, IsFlagValueGap))} |->
         Let([list \in {trim(SubSeq(rest, 1, ps_path_list_stop(rest, 1) - 1))} |->
         Let([items \in {split(list, ",")} |->
         LET clean(x) == trim_matches(trim_matches(trim(x), "'"), "\"") IN
         Let([cleaned \in {[k \in 1..Len(items) |-> clean(items[k])]} |->
             IF list = <<>> THEN <<>> ELSE SelectSeq(cleaned, LAMBDA x : x # <<>>)])])])])])])])])

ps_extract_match_query(script) ==
    Let([idx \in {find(to_ascii_lowercase(script), <<"-","m","a","t","c","h">>)} |->
    IF idx = 0 THEN None
    ELSE Let([after \in {From(script, idx + 6)} |->
         Let([rest \in {From(after, skip_while(after, 1, IsFlagValueGap))} |->
         IF rest = <<>> \/ rest[1] \notin {"'", "\""} THEN None
         ELSE Let([quote \in {rest[1]} |->
              Let([value \in {take_while(rest, 2, LAMBDA c : c # quote)} |->
              Let([simplified \in {remove_chars(value, {"\\", "\"", "'"})} |->
                  IF simplified = <<>> THEN None ELSE Some(simplified)])])])])])])

ps_extract_pattern(script) ==
    Let([idx \in {find(to_ascii_lowercase(script), <<"-","p","a","t","t","e","r","n">>)} |->
    IF idx = 0 THEN None
    ELSE Let([after \in {From(script, idx + 8)} |->
         Let([rest \in {From(after, skip_while(after, 1, IsFlagValueGap))} |->
         IF rest = <<>> THEN None
         ELSE IF rest[1] \in {"'", "\""}
              THEN Let([quote \in {rest[1]} |->
                                           Some(take_while(rest, 2, LAMBDA c : c # quote))])
         ELSE Let([value \in {take_while(rest, 1, LAMBDA c : ~is_whitespace(c))} |->
              IF value = <<>> THEN None ELSE Some(value)])])])])

IsCandidateBreak(c) ==
    is_whitespace(c) \/ c \in {"|", ";", "(", ")", "{", "}", ",", "=", "'", "\""}

\* The scan of ps_extract_filename: the candidates in order, one step per candidate;
\* in_quote is "" outside quotes.
RECURSIVE ps_candidates_from(_, _, _)
ps_candidates_from(s, i, in_quote) ==
    IF i > Len(s) THEN <<>>
    ELSE Let([e \in {IF in_quote # "" THEN skip_while(s, i, LAMBDA c : c # in_quote)
                     ELSE skip_while(s, i, LAMBDA c : ~IsCandidateBreak(c))} |->
         Let([cur \in {SubSeq(s, i, e - 1)} |->
         Let([next_quote \in {IF in_quote = "" /\ e <= Len(s) /\ s[e] \in {"'", "\""} THEN s[e] ELSE ""} |->
             (IF cur # <<>> THEN <<cur>> ELSE <<>>) \o ps_candidates_from(s, e + 1, next_quote)])])])

ps_extract_filename(script) ==
    Let([candidates \in {ps_candidates_from(script, 1, "")} |->
    Let([good \in {SelectSeq(candidates,
                             LAMBDA c : contains_char(c, ".") /\ \E k \in 1..Len(c) : is_ascii_alphabetic(c[k]))} |->
        IF good = <<>> THEN None ELSE Some(good[1])])])

\* The scan of ps_extract_directory, one step per quoted string.
RECURSIVE ps_directory_from(_, _)
ps_directory_from(s, i) ==
    Let([open \in {skip_while(s, i, LAMBDA c : c \notin {"'", "\""})} |->
    IF open > Len(s) THEN None
    ELSE Let([quote \in {s[open]} |->
         Let([close \in {skip_while(s, open + 1, LAMBDA c : c # quote)} |->
         Let([cur \in {SubSeq(s, open + 1, close - 1)} |->
             IF close > Len(s) THEN None
             ELSE IF cur # <<>> /\ (contains_char(cur, "/") \/ contains_char(cur, "\\")) THEN Some(cur)
             ELSE ps_directory_from(s, close + 1)])])])])

ps_extract_directory(script) == ps_directory_from(script, 1)

\* The scan of cmd_extract_query, one step per quoted string.
RECURSIVE cmd_query_from(_, _)
cmd_query_from(s, i) ==
    Let([open \in {skip_while(s, i, LAMBDA c : c \notin {"'", "\""})} |->
    IF open > Len(s) THEN None
    ELSE Let([quote \in {s[open]} |->
         Let([close \in {skip_while(s, open + 1, LAMBDA c : c # quote)} |->
         Let([cur \in {SubSeq(s, open + 1, close - 1)} |->
             IF close > Len(s) THEN None
             ELSE IF cur # <<>> THEN Some(cur)
             ELSE cmd_query_from(s, close + 1)])])])])

cmd_extract_query(script) ==
    Let([idx \in {find(to_ascii_lowercase(script), <<"f","i","n","d","s","t","r">>)} |->
    IF idx = 0 THEN None ELSE cmd_query_from(From(script, idx + 7), 1)])

\* is_cmd without the lower-casing: only the lower-case spellings are cmd.exe.
is_cmd_as_spelled(s) == s \in {<<"c","m","d">>, <<"c","m","d",".","e","x","e">>}

is_cmd(s) == to_ascii_lowercase(s) \in {<<"c","m","d">>, <<"c","m","d",".","e","x","e">>}

parse_cmd_exe_commands(original) ==
    Let([n \in {Len(original)} |->
    Let([shape \in {/\ n \in 3..5
                    /\ is_cmd(original[1])
                    /\ SubSeq(original, 2, n - 1) \in {<<<<"/","d">>, <<"/","s">>, <<"/","c">>>>, <<<<"/","s">>, <<"/","c">>>>, <<<<"/","c">>>>}} |->
    IF ~shape THEN None
    ELSE Let([script \in {original[n]} |->
         Let([prefix \in {join(SubSeq(original, 1, n - 1), <<" ">>)} |->
         Let([cmd \in {prefix \o <<" ">> \o script} |->
         Let([lower \in {to_ascii_lowercase(script)} |->
         Let([name \in {ps_extract_filename(script)} |->
         IF (starts_with(lower, <<"t","y","p","e"," ">>) \/ lower = <<"t","y","p","e">>) /\ name # None
         THEN Some(<<Read(cmd, short_display_path(name[1]), name[1])>>)
         ELSE IF starts_with(lower, <<"d","i","r">>) THEN Some(<<ListFiles(cmd, None)>>)
         ELSE IF contains(lower, <<"f","i","n","d","s","t","r">>) THEN Some(<<Search(cmd, cmd_extract_query(script), None)>>)
         ELSE Some(<<Unknown(cmd)>>)])])])])])])])

is_path_flag(t) ==
    Let([l \in {to_ascii_lowercase(t)} |->
    l = <<"-","p","a","t","h">> \/ starts_with(l, <<"-","p","a","t","h",":">>) \/ l = <<"-","l","i","t","e","r","a","l","p","a","t","h">> \/ starts_with(l, <<"-","l","i","t","e","r","a","l","p","a","t","h",":">>)])

\* The while loop of collect_positional_get_content_args over one segment's tokens.
RECURSIVE positional_from(_, _)
positional_from(toks, i) ==
    IF i > Len(toks) THEN <<>>
    ELSE IF eq_ignore_ascii_case(toks[i], <<"g","e","t","-","c","o","n","t","e","n","t">>) \/ eq_ignore_ascii_case(toks[i], <<"t","y","p","e">>)
    THEN IF \E k \in (i + 1)..Len(toks) : is_path_flag(toks[k]) THEN positional_from(toks, i + 1)
         ELSE Let([j \in {CHOOSE k \in (i + 1)..(Len(toks) + 1) :
                              /\ k > Len(toks) \/ ~StartsDash(toks[k])
                              /\ \A m \in (i + 1)..(k - 1) : StartsDash(toks[m])} |->
              Let([raw \in {trim_matches(trim_matches(toks[j], "'"), "\"")} |->
              Let([looks_like_path \in {
                          \/ contains_char(raw, "/")
                          \/ contains_char(raw, "\\")
                          \/ contains_char(raw, ".") /\ \E k \in 1..Len(raw) : is_ascii_alphabetic(raw[k])} |->
                  (IF j <= Len(toks) /\ looks_like_path /\ raw # <<>> THEN <<raw>> ELSE <<>>)
                  \o positional_from(toks, j)])])])
    ELSE positional_from(toks, i + 1)

RECURSIVE positional_over(_, _)
positional_over(segments, k) ==
    IF k > Len(segments) THEN <<>>
    ELSE positional_from(split_simple_tokens(segments[k]), 1) \o positional_over(segments, k + 1)

collect_positional_get_content_args(script) == positional_over(split_top_level_segments(script), 1)

(***************************************************************************)
(* powershell_utils.rs: parse_powershell_commands and its handlers         *)
(***************************************************************************)

handle_select_string(script, cmd_for_display, lower_script, pattern_query, dir_path) ==
    IF ~contains(lower_script, <<"s","e","l","e","c","t","-","s","t","r","i","n","g">>) THEN None
    ELSE Let([n \in {ps_extract_filename(script)} |->
         Let([names \in {ps_extract_filenames(script)} |->
         IF contains(lower_script, <<"g","e","t","-","c","o","n","t","e","n","t">>) /\ n # None
         THEN Some(<<Read(cmd_for_display, short_display_path(n[1]), n[1])>>)
         ELSE Some(<<Search(cmd_for_display, pattern_query,
                            IF names # <<>> THEN Some(short_display_path(names[1])) ELSE dir_path)>>)])])

handle_get_childitem(script, cmd_for_display, lower_script, dir_path) ==
    IF ~contains(lower_script, <<"g","e","t","-","c","h","i","l","d","i","t","e","m">>) THEN None
    ELSE Let([match_query \in {ps_extract_match_query(script)} |->
         Some(<<Search(cmd_for_display, match_query, IF match_query # None THEN None ELSE dir_path)>>)])

\* entries.sort_by_key(idx): a stable insertion of entry e into the sorted sequence.
insert_by_idx(sorted, e) ==
    Let([k \in {Cardinality({m \in 1..Len(sorted) : sorted[m].idx <= e.idx})} |->
    SubSeq(sorted, 1, k) \o <<e>> \o SubSeq(sorted, k + 1, Len(sorted))])

\* The entry loop of handle_get_content; a raw name found nowhere in the script sorts
\* last (usize::MAX in the source, Len(script) + 1 here).
RECURSIVE get_content_entries(_, _, _, _, _)
get_content_entries(script, raws, i, seen, sorted) ==
    IF i > Len(raws) THEN sorted
    ELSE Let([raw \in {raws[i]} |->
         Let([display \in {short_display_path(raw)} |->
         Let([at \in {IF find(script, raw) > 0 THEN find(script, raw)
                      ELSE IF find(script, display) > 0 THEN find(script, display)
                      ELSE Len(script) + 1} |->
             IF display \in seen THEN get_content_entries(script, raws, i + 1, seen, sorted)
             ELSE get_content_entries(script, raws, i + 1, seen \cup {display},
                                      insert_by_idx(sorted, [idx |-> at, name |-> display, path |-> raw]))])])])

mentions_type(lower_script) ==
    \/ starts_with(lower_script, <<"t","y","p","e"," ">>)
    \/ lower_script = <<"t","y","p","e">>
    \/ contains(lower_script, <<"|"," ","t","y","p","e"," ">>)
    \/ ends_with(lower_script, <<"|"," ","t","y","p","e">>)

handle_get_content(script, cmd_for_display, lower_script, file_names, positional_get_content_args) ==
    IF ~contains(lower_script, <<"g","e","t","-","c","o","n","t","e","n","t">>) /\ ~mentions_type(lower_script) THEN None
    ELSE IF file_names # <<>> \/ positional_get_content_args # <<>>
         THEN Let([entries \in {get_content_entries(script, file_names \o positional_get_content_args, 1, {}, <<>>)} |->
              Some([k \in 1..Len(entries) |-> Read(cmd_for_display, entries[k].name, entries[k].path)])])
    ELSE Let([n \in {ps_extract_filename(script)} |->
         IF n # None THEN Some(<<Read(cmd_for_display, short_display_path(n[1]), n[1])>>) ELSE None])

\* The match of shlex_fallback that keeps the summary and replaces its cmd.
remap_cmd(pcmd, cmd) == [pcmd EXCEPT !.cmd = cmd]

shlex_fallback(script, cmd_for_display) ==
    Let([lexed \in {shlex_split(script)} |->
    IF lexed = None THEN None
    ELSE Let([tokens \in {lexed[1]} |->
         Let([controls \in {{<<"&","&">>, <<"|","|">>, <<";">>}} |->
         Let([has_control_connectors \in {\E k \in 1..Len(tokens) : tokens[k] \in controls} |->
         Let([segments \in {split_tokens(tokens, controls, 1, <<>>)} |->
         IF has_control_connectors
         THEN Some(simplify([k \in 1..Len(segments) |->
                               remap_cmd(summarize_main_tokens(segments[k]), shlex_join(segments[k]))]))
         ELSE Some(<<remap_cmd(summarize_main_tokens(tokens), cmd_for_display)>>)])])])])])

parse_powershell_commands(original) ==
    Let([extracted \in {try_extract_powershell_command_script(original)} |->
    IF extracted = None THEN None
    ELSE Let([script \in {extracted[1]} |->
         Let([sa \in {ps_strip_leading_assignments(script)} |->
         Let([stripped \in {sa[1]} |->
         Let([assigns \in {sa[2]} |->
         Let([substituted \in {ps_substitute_vars(stripped, assigns)} |->
         Let([substituted_display \in {ps_substitute_vars_preserving_style(stripped, assigns)} |->
         Let([lower_script \in {to_ascii_lowercase(substituted)} |->
         Let([pattern_query \in {ps_extract_pattern(substituted)} |->
         Let([file_names \in {ps_extract_filenames(substituted)} |->
         Let([positional_get_content_args \in {collect_positional_get_content_args(substituted)} |->
         Let([dir \in {ps_extract_directory(substituted)} |->
         Let([dir_path \in {IF dir = None THEN None ELSE Some(short_display_path(dir[1]))} |->
         Let([r1 \in {handle_select_string(substituted, script, lower_script, pattern_query, dir_path)} |->
         Let([r2 \in {handle_get_childitem(substituted, script, lower_script, dir_path)} |->
         Let([r3 \in {handle_get_content(substituted, script, lower_script, file_names, positional_get_content_args)} |->
         Let([r4 \in {shlex_fallback(substituted, substituted_display)} |->
             IF r1 # None THEN r1
             ELSE IF r2 # None THEN r2
             ELSE IF r3 # None THEN r3
             ELSE IF r4 # None THEN r4
             ELSE Some(<<Unknown(script)>>)])])])])])])])])])])])])])])])])])

(***************************************************************************)
(* parse_command.rs: parse_bash_lc_commands, parse_command_impl,           *)
(* parse_command                                                           *)
(***************************************************************************)

is_small_formatting_command(tokens) ==
    IF tokens = <<>> THEN FALSE
    ELSE IF tokens[1] \in {<<"w","c">>, <<"t","r">>, <<"c","u","t">>, <<"s","o","r","t">>, <<"u","n","i","q">>, <<"x","a","r","g","s">>, <<"t","e","e">>,
                           <<"c","o","l","u","m","n">>, <<"a","w","k">>, <<"y","e","s">>, <<"p","r","i","n","t","f">>} THEN TRUE
    ELSE IF tokens[1] \in {<<"h","e","a","d">>, <<"t","a","i","l">>} THEN Len(tokens) < 3
    ELSE IF tokens[1] = <<"s","e","d">>
         THEN Len(tokens) < 4 \/ ~(tokens[2] = <<"-","n">> /\ parse_command_is_valid_sed_n_arg(Get(tokens, 3)))
    ELSE FALSE

\* drop_small_formatting_commands without the filter: every command is kept.
keep_all_commands(commands) == commands

drop_small_formatting_commands(commands) ==
    SelectSeq(commands, LAMBDA tokens : ~is_small_formatting_command(tokens))

\* The loop without the cd branch: every segment, cd included, gives its record.
summarize_every_segment(parts, i, cwd) == [k \in 1..Len(parts) |-> summarize_main_tokens(parts[k])]

\* The loop that maps each segment to its summary, tracking cd to compute paths
\* (the same loop in parse_command_impl and parse_bash_lc_commands).
RECURSIVE summarize_segments(_, _, _)
summarize_segments(parts, i, cwd) ==
    IF i > Len(parts) THEN <<>>
    ELSE Let([tokens \in {parts[i]} |->
         IF tokens # <<>> /\ tokens[1] = <<"c","d">>
         THEN summarize_segments(parts, i + 1,
                                 IF Len(tokens) < 2 THEN cwd
                                 ELSE IF cwd # None THEN Some(join_paths(cwd[1], tokens[2]))
                                 ELSE Some(tokens[2]))
         ELSE Let([p \in {summarize_main_tokens(tokens)} |->
              Let([q \in {IF p.kind = "Read" /\ cwd # None
                          THEN [p EXCEPT !.path = Some(join_paths(cwd[1], p.path[1]))]
                          ELSE p} |->
                  <<q>> \o summarize_segments(parts, i + 1, cwd)])])])

parse_bash_lc_commands(original) ==
    IF Len(original) # 3 \/ original[1] # <<"b","a","s","h">> \/ original[2] # <<"-","l","c">> THEN None
    ELSE Let([script \in {original[3]} |->
         Let([all \in {try_parse_word_only_commands_sequence(script)} |->
         IF all = None \/ all = Some(<<>>) THEN Some(<<Unknown(script)>>)
         ELSE Let([all_commands \in {all[1]} |->
              Let([lexed \in {shlex_split(script)} |->
              Let([script_tokens \in {IF lexed # None THEN lexed[1] ELSE <<<<"b","a","s","h">>, original[2], script>>} |->
              Let([had_multiple_commands \in {Len(all_commands) > 1} |->
              Let([filtered_commands \in {drop_small_formatting_commands(all_commands)} |->
              Let([commands0 \in {summarize_segments(filtered_commands, 1, None)} |->
              Let([commands1 \in {
                          IF Len(commands0) > 1
                          THEN simplify(SelectSeq(commands0,
                                                  LAMBDA p : ~(p.kind = "Unknown" /\ p.cmd = <<"t","r","u","e">>)))
                          ELSE commands0} |->
              LET has(t) == \E k \in 1..Len(script_tokens) : script_tokens[k] = t IN
              Let([had_connectors \in {
                          had_multiple_commands \/ has(<<"|">>) \/ has(<<"&","&">>) \/ has(<<"|","|">>) \/ has(<<";">>)} |->
              Let([has_sed_n \in {\E k \in 1..(Len(script_tokens) - 1) :
                                      script_tokens[k] = <<"s","e","d">> /\ script_tokens[k + 1] = <<"-","n">>} |->
              LET redisplay(p) == 
                      IF p.kind = "Read"
                      THEN IF had_connectors
                           THEN IF has(<<"|">>) /\ has_sed_n THEN remap_cmd(p, script) ELSE p
                           ELSE remap_cmd(p, shlex_join(script_tokens))
                      ELSE IF p.kind \in {"ListFiles", "Search"}
                           THEN IF had_connectors THEN p ELSE remap_cmd(p, shlex_join(script_tokens))
                      ELSE p IN
                  IF filtered_commands = <<>> THEN Some(<<Unknown(script)>>)
                  ELSE IF Len(commands1) = 1 THEN Some(<<redisplay(commands1[1])>>)
                  ELSE Some(commands1)])])])])])])])])])])])

parse_command_impl(cmd) ==
    Let([r1 \in {parse_bash_lc_commands(cmd)} |->
    Let([r2 \in {parse_powershell_commands(cmd)} |->
    Let([r3 \in {parse_cmd_exe_commands(cmd)} |->
    Let([normalized \in {normalize_tokens(cmd)} |->
    Let([parts \in {IF contains_connectors(normalized) THEN split_on_connectors(normalized) ELSE <<normalized>>} |->
        IF r1 # None THEN r1[1]
        ELSE IF r2 # None THEN r2[1]
        ELSE IF r3 # None THEN r3[1]
        ELSE simplify(summarize_segments(parts, 1, None))])])])])])

\* The loop of parse_command with the comparison left out: every record is kept.
dedup_none(parsedv, i, deduped) == parsedv

\* The loop of parse_command: a record equal to the last one kept is skipped.
RECURSIVE dedup_adjacent(_, _, _)
dedup_adjacent(parsedv, i, deduped) ==
    IF i > Len(parsedv) THEN deduped
    ELSE IF deduped # <<>> /\ deduped[Len(deduped)] = parsedv[i] THEN dedup_adjacent(parsedv, i + 1, deduped)
    ELSE dedup_adjacent(parsedv, i + 1, Append(deduped, parsedv[i]))

parse_command(cmd) == dedup_adjacent(parse_command_impl(cmd), 1, <<>>)

(***************************************************************************)
(* is_powershell_read_only_script (powershell_utils.rs) and                *)
(* is_known_safe_command (is_safe_command.rs), which call each other       *)
(***************************************************************************)

RECURSIVE is_known_safe_command(_)

\* The closure of is_powershell_read_only_script that picks the first command-like token.
is_command_like(t) ==
    /\ t # <<>>
    /\ is_ascii_alphabetic(t[1]) \/ t[1] = "%"
    /\ t[1] \notin {"$", "-"}
    /\ ~contains_char(t, "=")

\* The first command-like token of a segment, lower-cased (None if there is none).
first_command_token(tokens) ==
    Let([hits \in {SelectSeq(tokens, is_command_like)} |->
    IF hits = <<>> THEN None ELSE Some(to_ascii_lowercase(hits[1]))])

looks_like_cmdlet(first) == first = <<"%">> \/ contains_char(first, "-")

\* The separators of the allowlist scan.
PsScanSeparators == {" ", "\t", "\n", "|", ";", "(", ")", "{", "}", ",", "="}

RECURSIVE ps_scan_tokens(_, _, _)
ps_scan_tokens(s, i, buf) ==
    IF i > Len(s) THEN (IF buf # <<>> THEN <<buf>> ELSE <<>>)
    ELSE IF s[i] \in PsScanSeparators
         THEN (IF buf # <<>> THEN <<buf>> ELSE <<>>) \o ps_scan_tokens(s, i + 1, <<>>)
    ELSE ps_scan_tokens(s, i + 1, Append(buf, s[i]))

\* The final loop of is_powershell_read_only_script: every Word-Word token is an
\* allowed cmdlet.
ps_allowlist_scan(script) ==
    Let([toks \in {ps_scan_tokens(script, 1, <<>>)} |->
    \A k \in 1..Len(toks) :
        Let([token \in {trim(toks[k])} |->
        (/\ token # <<>>
         /\ token[1] \notin {"$", "-"}
         /\ contains_char(token, "-")
         /\ \E m \in 1..Len(token) : is_ascii_alphabetic(token[m]))
        => to_ascii_lowercase(token) \in PS_ALLOWED_CMDLETS])])

\* A segment whose first command-like token is neither a cmdlet nor a read-only
\* keyword: the loop of is_powershell_read_only_script rejects it as a banned alias
\* or pushes its tokens onto external_cmds.
is_plain_command_segment(seg) ==
    Let([first \in {first_command_token(split_simple_tokens(seg))} |->
    first # None /\ ~looks_like_cmdlet(first[1]) /\ first[1] \notin PS_KEYWORDS_READ_ONLY])

has_banned_alias(seg) ==
    is_plain_command_segment(seg) /\ first_command_token(split_simple_tokens(seg))[1] \in PS_BANNED_ALIASES

is_powershell_read_only_script(script) ==
    Let([lower_script \in {to_ascii_lowercase(script)} |->
    Let([segments \in {split_top_level_segments(script)} |->
    Let([external_cmds \in {SelectSeq(segments, is_plain_command_segment)} |->
    Let([filtered \in {SelectSeq(external_cmds,
                                 LAMBDA seg : ~eq_ignore_ascii_case(split_simple_tokens(seg)[1], <<"t","y","p","e">>))} |->
    IF contains_banned_substring(script) THEN FALSE
    ELSE IF \E k \in 1..Len(segments) : has_banned_alias(segments[k]) THEN FALSE
    ELSE IF external_cmds # <<>>
         THEN \A k \in 1..Len(filtered) : is_known_safe_command(split_simple_tokens(filtered[k]))
    ELSE IF contains(lower_script, <<"g","e","t","-","c","o","n","t","e","n","t">>) \/ mentions_type(lower_script) THEN TRUE
    ELSE ps_allowlist_scan(script)])])])])

MUTATING_HINTS ==
    {<<"r","e","m","o","v","e","-","i","t","e","m">>, <<"s","e","t","-","c","o","n","t","e","n","t">>, <<"a","d","d","-","c","o","n","t","e","n","t">>, <<"n","e","w","-","i","t","e","m">>, <<">",">">>, <<">">>}

\* The first PowerShell fallback: Get-Content is mentioned and no mutating hint is.
get_content_fallback(script) ==
    Let([lower \in {to_ascii_lowercase(script)} |->
    contains(lower, <<"g","e","t","-","c","o","n","t","e","n","t">>) /\ ~\E h \in MUTATING_HINTS : contains(lower, h)])

\* The second PowerShell fallback: every parsed record is Read, ListFiles or Search.
parsed_read_only_fallback(cmd) ==
    Let([parsedv \in {parse_powershell_commands(cmd)} |->
    parsedv # None /\ \A k \in 1..Len(parsedv[1]) : parsedv[1][k].kind \in {"Read", "ListFiles", "Search"}])

is_known_safe_command(cmd) ==
    Let([all_commands \in {parse_bash_lc_plain_commands(cmd)} |->
    Let([script \in {try_extract_powershell_command_script(cmd)} |->
    IF is_safe_to_call_with_exec(cmd) THEN TRUE
    ELSE IF /\ all_commands # None
            /\ all_commands[1] # <<>>
            /\ \A k \in 1..Len(all_commands[1]) : is_safe_to_call_with_exec(all_commands[1][k])
         THEN TRUE
    ELSE IF /\ Len(cmd) = 3
            /\ cmd[1] \in {<<"b","a","s","h">>, <<"z","s","h">>}
            /\ cmd[2] = <<"-","l","c">>
            /\ is_bash_read_only_with_assignments(cmd[3])
         THEN TRUE
    ELSE IF script # None
         THEN IF is_powershell_read_only_script(script[1]) THEN TRUE
              ELSE IF get_content_fallback(script[1]) THEN TRUE
              ELSE parsed_read_only_fallback(cmd)
    ELSE FALSE])])

(***************************************************************************)
(* The classifier as a state machine: a command arrives, and the caller    *)
(* asks is_known_safe_command for a verdict or parse_command for a summary.*)
(***************************************************************************)

\* Bounds of the explored inputs.
MaxArgs == 3

MaxSegments == 2

MaxDepth == 2

\* Plain argvs: up to MaxArgs tokens of programs, operands, operators and redirections.
ArgvTokens ==
    {<<"l","s">>, <<"r","m">>, <<"c","d">>, <<"t","r","u","e">>, <<"f","o","o">>, <<">">>, <<">",">">>, <<"<">>, <<"|","&">>, <<"|">>, <<"&","&">>, <<";">>}

PlainArgvs == UNION {[1..k -> ArgvTokens] : k \in 0..MaxArgs}

\* Shell scripts: a simple command nested in up to MaxDepth substitutions, optionally
\* followed by an operator and a second simple command.
BashBase ==
    {<<"l","s">>,
     <<"r","m"," ","x">>,
     <<"l","s"," ",">"," ","o">>,
     <<"l","s"," ","&"," ","p","w","d">>,
     <<"e","c","h","o"," ",Backtick,"l","s",Backtick>>,
     <<"c","d"," ","f","o","o">>,
     <<"t","r","u","e">>,
     <<"e","c","h","o"," ","'","a"," ",">"," ","b","'">>,
     <<"F","O","O","=","b","a","r">>}

RECURSIVE Nested(_)
Nested(d) == IF d = 0 THEN BashBase ELSE BashBase \cup {<<"e","c","h","o"," ","$","(">> \o x \o <<")">> : x \in Nested(d - 1)}

BashOperators == {<<" ","&","&"," ">>, <<" ","|"," ">>, <<";"," ">>, <<" ","|","|"," ">>}

BashTails == {<<>>} \cup {op \o t : op \in BashOperators, t \in BashBase}

BashScripts == {f \o t : f \in Nested(MaxDepth), t \in BashTails}

ShellArgvs == {<<sh, <<"-","l","c">>, s>> : sh \in {<<"b","a","s","h">>, <<"z","s","h">>}, s \in BashScripts}

\* PowerShell scripts: up to MaxSegments statements joined by ; or |.
PsStatements ==
    {<<"G","e","t","-","C","o","n","t","e","n","t"," ","a",".","t","x","t">>,
     <<"G","e","t","-","C","h","i","l","d","I","t","e","m">>,
     <<"l","s">>,
     <<"l","s"," ",">"," ","o",".","t","x","t">>,
     <<"r","m"," ","f","o","o">>,
     <<"R","M"," ","f","o","o">>,
     <<"c","a","r","g","o"," ","t","e","s","t">>,
     <<"r","g"," ","f","o","o">>,
     <<"C","o","p","y","-","I","t","e","m"," ","a"," ","b">>,
     <<"E","x","p","o","r","t","-","C","s","v"," ","b">>,
     <<"W","r","i","t","e","-","H","o","s","t"," ","'","a"," ",">"," ","b","'">>,
     <<"t","y","p","e"," ","a",".","t","x","t">>}

PsSeparators == {<<";"," ">>, <<" ","|"," ">>}

RECURSIVE PsScripts(_)
PsScripts(n) ==
    IF n = 1 THEN PsStatements
    ELSE PsScripts(n - 1) \cup {s \o sep \o t : s \in PsScripts(n - 1), sep \in PsSeparators, t \in PsStatements}

PsPrefixes == {<<<<"p","w","s","h">>, <<"-","C","o","m","m","a","n","d">>>>, <<<<"p","o","w","e","r","s","h","e","l","l">>, <<"-","N","o","P","r","o","f","i","l","e">>, <<"-","c">>>>}

PowerShellArgvs == {p \o <<s>> : p \in PsPrefixes, s \in PsScripts(MaxSegments)}

\* The argvs of one program: its name followed by up to MaxArgs of the given tokens.
HeadedArgvs(head, tokens) == {<<head>> \o t : t \in UNION {[1..k -> tokens] : k \in 0..MaxArgs}}

\* cat: a file, a path, a file whose name starts with a dash, two flags and `--`.
CatArgvs ==
    HeadedArgvs(<<"c","a","t">>,
                {<<"a",".","t","x","t">>, <<"s","u","b","/","c",".","t","x","t">>, <<".","/","-","s","t","r","a","n","g","e">>, <<"-","n">>, <<"-","A">>, <<"-","-">>})

\* Get-Content and type statements, each with the files it names, in the order it
\* names them.
GetContentStatements ==
    {[text |-> <<"G","e","t","-","C","o","n","t","e","n","t"," ","a",".","t","x","t">>, files |-> <<<<"a",".","t","x","t">>>>],
     [text |-> <<"G","e","t","-","C","o","n","t","e","n","t"," ","s","u","b","/","a",".","t","x","t">>, files |-> <<<<"s","u","b","/","a",".","t","x","t">>>>],
     [text |-> <<"t","y","p","e"," ","b",".","t","x","t">>, files |-> <<<<"b",".","t","x","t">>>>],
     [text |-> <<"G","e","t","-","C","o","n","t","e","n","t"," ","-","P","a","t","h"," ","c",".","t","x","t">>, files |-> <<<<"c",".","t","x","t">>>>],
     [text |-> <<"G","e","t","-","C","o","n","t","e","n","t"," ","-","P","a","t","h"," ","b",".","t","x","t",",","a",".","t","x","t">>, files |-> <<<<"b",".","t","x","t">>, <<"a",".","t","x","t">>>>],
     [text |-> <<"G","e","t","-","C","o","n","t","e","n","t"," ","-","P","a","t","h"," ","x","/","a",".","t","x","t",","," ","d",".","m","d"," ","-","R","a","w">>, files |-> <<<<"x","/","a",".","t","x","t">>, <<"d",".","m","d">>>>],
     [text |-> <<"G","e","t","-","C","o","n","t","e","n","t"," ","-","P","a","t","h"," ","x","a",".","t","x","t",",","c",".","t","x","t">>, files |-> <<<<"x","a",".","t","x","t">>, <<"c",".","t","x","t">>>>]}

GetContentSequences == UNION {[1..k -> GetContentStatements] : k \in 1..MaxSegments}

\* The statements as one script, with `; ` between them.
RECURSIVE GetContentScript(_)
GetContentScript(stmts) ==
    IF Len(stmts) = 1 THEN stmts[1].text
    ELSE stmts[1].text \o <<";"," ">> \o GetContentScript(Tail(stmts))

GetContentArgvs == {<<<<"p","w","s","h">>, <<"-","C","o","m","m","a","n","d">>, GetContentScript(stmts)>> : stmts \in GetContentSequences}

\* cmd.exe: the program name in three spellings, the three flag prefixes, and scripts
\* with type, dir and findstr alone, combined, and as the beginning of another word.
CmdPrefixes ==
    {<<c>> \o f : c \in {<<"c","m","d">>, <<"C","M","D",".","E","X","E">>, <<"C","m","d",".","e","x","e">>},
                  f \in {<<<<"/","c">>>>, <<<<"/","s">>, <<"/","c">>>>, <<<<"/","d">>, <<"/","s">>, <<"/","c">>>>}}

CmdScripts ==
    {<<"t","y","p","e"," ","a",".","t","x","t">>, <<"T","Y","P","E"," ","s","u","b","/","b",".","t","x","t">>, <<"t","y","p","e"," ","a",".","t","x","t"," ","|"," ","f","i","n","d","s","t","r"," ","\"","x","\"">>, <<"t","y","p","e","p","e","r","f"," ","a",".","l","o","g">>,
     <<"t","y","p","e">>, <<"t","y","p","e"," ","n","u","l">>, <<"t","y","p","e"," ","|"," ","f","i","n","d","s","t","r"," ","\"","x","\"">>, <<"d","i","r">>, <<"D","I","R"," ","/","b"," ","s","r","c">>,
     <<"d","i","r","e","c","t","o","r","y",".","e","x","e"," ","a",".","t","x","t">>, <<"d","i","r"," ","|"," ","f","i","n","d","s","t","r"," ","\"","x","\"">>, <<"f","i","n","d","s","t","r"," ","/","s"," ","\"","f","o","o"," ","b","a","r","\""," ","*",".","r","s">>,
     <<"F","I","N","D","S","T","R"," ","'","a","'"," ","\"","b","\"">>, <<"f","i","n","d","s","t","r"," ","\"","\""," ","\"","q","\"">>, <<"f","i","n","d","s","t","r"," ","f","o","o">>, <<"e","c","h","o"," ","h","i">>}

CmdArgvs == {p \o <<s>> : p \in CmdPrefixes, s \in CmdScripts}

RangeChars == {"1", "2", ",", "p", "x", "+"}

\* sed -n with the range missing, with every argument of up to MaxArgs characters and
\* with the examples of longer ranges, alone and followed by a file.
RangeArgs ==
    UNION {[1..k -> RangeChars] : k \in 0..MaxArgs}
        \cup {<<"1",",","2","p">>, <<"1",",","2","0","0","p">>, <<"1",",","2",",","3","p">>, <<"1","2",",","3","4","p">>, <<"0","1","2","3","4","5","6","7","8","9","p">>, <<"1",",","2","p",",">>, <<"p","1",",","2","p">>,
              <<"1",",",",","2","p">>, <<",","1",",","2","p">>, <<"1",",","2","p","p">>}

SedRangeArgvs ==
    {<<<<"s","e","d">>, <<"-","n">>>>}
        \cup {<<<<"s","e","d">>, <<"-","n">>, a>> : a \in RangeArgs}
        \cup {<<<<"s","e","d">>, <<"-","n">>, a, <<"f",".","t","x","t">>>> : a \in RangeArgs}

SegmentChars == {"a", " ", ";", "|", "'", "\""}

\* pwsh -Command with every script of up to MaxArgs characters, and longer ones:
\* delimiters inside and outside single and double quotes, closed, unclosed and nested.
SegmentArgvs ==
    {<<<<"p","w","s","h">>, <<"-","C","o","m","m","a","n","d">>, s>> :
        s \in UNION {[1..k -> SegmentChars] : k \in 1..MaxArgs}
                 \cup {<<"'",";","'","|">>, <<"a"," ","'","b",";","c","'"," ","|"," ","\"","d","|","e","\""," ",";"," ","f">>, <<"'","\"",";","\"","'"," ",";"," ","a">>, <<"\"","'",";","'","\"","|","a","|">>,
                       <<"a"," ",";",";"," ","'","b"," ","|"," ","c">>, <<" ","a"," ","|"," ","\"","b"," ",";"," ","c">>}}

\* find: the options that execute, delete or write, a start directory, and a pipe
\* into another program.
FindArgvs ==
    HeadedArgvs(<<"f","i","n","d">>,
                {<<"-","e","x","e","c">>, <<"-","e","x","e","c","d","i","r">>, <<"-","o","k">>, <<"-","o","k","d","i","r">>, <<"-","d","e","l","e","t","e">>, <<"-","f","l","s">>,
                 <<"-","f","p","r","i","n","t">>, <<"-","f","p","r","i","n","t","0">>, <<"-","f","p","r","i","n","t","f">>, <<".">>, <<"|">>, <<"l","s">>})

\* rg: the options that run a program, with and without a value, and their look-alikes.
RgArgvs ==
    HeadedArgvs(<<"r","g">>,
                {<<"-","-","s","e","a","r","c","h","-","z","i","p">>, <<"-","z">>, <<"-","-","p","r","e">>, <<"-","-","h","o","s","t","n","a","m","e","-","b","i","n">>, <<"-","-","p","r","e","=","f","o","o">>,
                 <<"-","-","h","o","s","t","n","a","m","e","-","b","i","n","=","x">>, <<"-","-","p","r","e","-">>, <<"-","-","h","o","s","t","n","a","m","e","-","b","i","n","x">>, <<"-","z","n">>, <<"f","o","o">>})

\* sed: the strict form, the whitelisted flags, the in-place and script-file flags,
\* flags with a value, and unknown flags.
SedArgvs ==
    HeadedArgvs(<<"s","e","d">>,
                {<<"-","n">>, <<"1",",","5","p">>, <<"p">>, <<>>, <<"5">>, <<"-">>, <<"-","x">>, <<"-","n","E">>, <<"-","n","e">>,
                 <<"-","e">>, <<"-","-","e","x","p","r","e","s","s","i","o","n">>, <<"-","-","e","x","p","r","e","s","s","i","o","n","=","p">>, <<"-","-","q","u","i","e","t">>,
                 <<"-","l">>, <<"-","-","l","i","n","e","-","l","e","n","g","t","h">>, <<"-","-","l","i","n","e","-","l","e","n","g","t","h","=","5">>, <<"-","-","l","i","n","e","-","l","e","n","g","t","h","=","x">>,
                 <<"-","i">>, <<"-","i",".","b","a","k">>, <<"-","-","i","n","-","p","l","a","c","e","=","x">>, <<"-","f">>, <<"-","-","f","i","l","e">>, <<"-","-","f","i","l","e","=","x">>})

\* git: the read-only subcommands, a mutating one, a global option and its value.
GitArgvs ==
    HeadedArgvs(<<"g","i","t">>,
                {<<"b","r","a","n","c","h">>, <<"s","t","a","t","u","s">>, <<"l","o","g">>, <<"d","i","f","f">>, <<"s","h","o","w">>, <<"f","e","t","c","h">>, <<"-","C">>,
                 <<"d","i","r">>, <<"S","t","a","t","u","s">>})

\* Shell scripts with variable assignments: alone, before a command (after a space,
\* two spaces or a tab), malformed, and next to a second segment.
AssignmentSegments ==
    {<<"F","O","O","=","b","a","r">>, <<"_","x","1","=","a">>, <<"F","O","O","=">>, <<"1","F","O","O","=","b","a","r">>, <<"F","O","O","=","b","a","r"," ","l","s">>, <<"F","O","O","=","b","a","r"," "," ","l","s">>,
     <<"F","O","O","=","b","a","r","\t","l","s">>, <<"F","O","O","=","b","a","r"," ","r","m"," ","x">>, <<"F","O","O","="," ","l","s">>, <<"l","s">>, <<"r","m"," ","x">>}

AssignmentArgvs ==
    {<<sh, <<"-","l","c">>, s>> :
        sh \in {<<"b","a","s","h">>, <<"z","s","h">>},
        s \in AssignmentSegments
              \cup {a \o op \o b : a \in AssignmentSegments, op \in BashOperators, b \in AssignmentSegments}}

\* Sequences of cd and cat: up to MaxSegments + 1 segments, each a cd into a relative
\* or absolute directory or a cat of a relative or absolute file.
CdCatSegments ==
    {<<<<"c","d">>, d>> : d \in {<<"f","o","o">>, <<"t","m","p","/">>, <<"/","a","b","s">>}}
        \cup {<<<<"c","a","t">>, f>> : f \in {<<"a",".","t","x","t">>, <<"s","u","b","/","c",".","t","x","t">>, <<"/","e","t","c","/","b",".","t","x","t">>}}

CdCatSequences == UNION {[1..k -> CdCatSegments] : k \in 1..(MaxSegments + 1)}

\* The sequence as one argv, with && between the segments.
RECURSIVE CdCatArgv(_)
CdCatArgv(segs) ==
    IF Len(segs) = 1 THEN segs[1] ELSE segs[1] \o <<<<"&","&">>>> \o CdCatArgv(Tail(segs))

\* The sequence as a bash -lc script.
CdCatScript(segs) == <<<<"b","a","s","h">>, <<"-","l","c">>, join(CdCatArgv(segs), <<" ">>)>>

CdCatArgvs == {CdCatArgv(segs) : segs \in CdCatSequences} \cup {CdCatScript(segs) : segs \in CdCatSequences}

\* cd with a relative directory, an absolute one and none, and one segment of each
\* kind of record: ListFiles, Read, Search, Unknown.
CdMixSegments ==
    {<<<<"c","d">>, <<"f","o","o">>>>, <<<<"c","d">>, <<"/","a","b","s">>>>, <<<<"c","d">>>>,
     <<<<"l","s">>>>, <<<<"c","a","t">>, <<"a",".","t","x","t">>>>, <<<<"r","g">>, <<"f","o","o">>>>, <<<<"r","m">>, <<"x">>>>}

\* The sequences of up to MaxSegments + 1 of them that hold a segment other than cd.
CdMixSequences ==
    {segs \in UNION {[1..k -> CdMixSegments] : k \in 1..(MaxSegments + 1)} :
        \E k \in 1..Len(segs) : segs[k][1] # <<"c","d">>}

CdMixArgvs == {CdCatArgv(segs) : segs \in CdMixSequences}

\* bash -lc pipelines of up to MaxSegments segments: the formatting helpers, head,
\* tail and sed with and without a file operand, and three commands that are kept.
PipelineSegments ==
    {<<<<"w","c">>, <<"-","l">>>>, <<<<"t","r">>, <<"a">>, <<"b">>>>, <<<<"c","u","t">>, <<"-","c","1">>>>, <<<<"s","o","r","t">>>>,
     <<<<"u","n","i","q">>>>, <<<<"x","a","r","g","s">>>>, <<<<"t","e","e">>>>, <<<<"c","o","l","u","m","n">>>>, <<<<"a","w","k">>, <<"1">>>>,
     <<<<"y","e","s">>>>, <<<<"p","r","i","n","t","f">>, <<"x">>>>,
     <<<<"h","e","a","d">>>>, <<<<"h","e","a","d">>, <<"-","5">>>>, <<<<"h","e","a","d">>, <<"-","n">>, <<"5">>>>,
     <<<<"t","a","i","l">>, <<"-","5">>>>, <<<<"t","a","i","l">>, <<"-","n">>, <<"5">>, <<"f",".","t","x","t">>>>,
     <<<<"s","e","d">>, <<"s","/","a","/","b","/">>>>, <<<<"s","e","d">>, <<"-","n">>, <<"1",",","5","p">>>>,
     <<<<"s","e","d">>, <<"-","n">>, <<"1",",","5","p">>, <<"f",".","t","x","t">>>>, <<<<"s","e","d">>, <<"-","n">>, <<"x","p">>, <<"f",".","t","x","t">>>>,
     <<<<"s","e","d">>, <<"-","n">>, <<"1",",","5","p">>, <<"f",".","t","x","t">>, <<"g",".","t","x","t">>>>,
     <<<<"l","s">>>>, <<<<"c","a","t">>, <<"a",".","t","x","t">>>>, <<<<"r","g">>, <<"f","o","o">>>>}

PipelineSequences == UNION {[1..k -> PipelineSegments] : k \in 1..MaxSegments}

\* The sequence as a bash -lc script, its segments joined by pipes.
PipelineScript(segs) == join([k \in 1..Len(segs) |-> join(segs[k], <<" ">>)], <<" ","|"," ">>)

PipelineArgvs == {<<<<"b","a","s","h">>, <<"-","l","c">>, PipelineScript(segs)>> : segs \in PipelineSequences}

InitWith(inputs) ==
    /\ command \in inputs
    /\ pc = "ready"
    /\ safe = FALSE
    /\ parsed = <<>>

InitArgv == InitWith(PlainArgvs)

InitShell == InitWith(ShellArgvs)

InitPowerShell == InitWith(PowerShellArgvs)

Init == InitArgv \/ InitShell \/ InitPowerShell

\* The caller asks whether the command may run without approval.
IsKnownSafe ==
    /\ pc = "ready"
    /\ safe' = is_known_safe_command(command)
    /\ pc' = "classified"
    /\ UNCHANGED <<command, parsed>>

\* The caller asks for the summary of the command.
ParseCommand ==
    /\ pc = "ready"
    /\ parsed' = parse_command(command)
    /\ pc' = "parsed"
    /\ UNCHANGED <<command, safe>>

Next == IsKnownSafe \/ ParseCommand

Spec == Init /\ [][Next]_vars

SpecArgv == InitArgv /\ [][Next]_vars

SpecShell == InitShell /\ [][Next]_vars

SpecPowerShell == InitPowerShell /\ [][Next]_vars

SpecRg == InitWith(RgArgvs) /\ [][Next]_vars

SpecSed == InitWith(SedArgvs) /\ [][Next]_vars

SpecGit == InitWith(GitArgvs) /\ [][Next]_vars

SpecAssignment == InitWith(AssignmentArgvs) /\ [][Next]_vars

SpecCd == InitWith(CdCatArgvs) /\ [][Next]_vars

SpecPipeline == InitWith(PipelineArgvs) /\ [][Next]_vars

SpecCat == InitWith(CatArgvs) /\ [][Next]_vars

SpecGetContent == InitWith(GetContentArgvs) /\ [][Next]_vars

SpecCmdExe == InitWith(CmdArgvs) /\ [][Next]_vars

SpecSedRange == InitWith(SedRangeArgvs) /\ [][Next]_vars

SpecSegments == InitWith(SegmentArgvs) /\ [][Next]_vars

SpecCdMix == InitWith(CdMixArgvs) /\ [][Next]_vars

SpecFind == InitWith(FindArgvs) /\ [][Next]_vars

(***************************************************************************)
(* The simplify loop as a state machine: parsed holds `commands`, each     *)
(* step is one `while let Some(next) = simplify_once(&commands)` turn.     *)
(***************************************************************************)

\* The segments whose records the simplifier looks for, and three it keeps.
SimplifySegments ==
    {<<<<"e","c","h","o">>, <<"h","i">>>>, <<<<"c","d">>, <<"f","o","o">>>>, <<<<"t","r","u","e">>>>, <<<<"n","l">>, <<"-","b","a">>>>,
     <<<<"l","s">>>>, <<<<"c","a","t">>, <<"a",".","t","x","t">>>>, <<<<"r","m">>, <<"x">>>>}

SimplifyArgvs ==
    {<<>>} \cup {CdCatArgv(segs) : segs \in UNION {[1..k -> SimplifySegments] : k \in 1..(MaxSegments + 1)}}

\* The records of the segments of an argv, one per segment, before simplification
\* (the map over segments in shlex_fallback).
SegmentRecords(cmd) ==
    Let([segments \in {split_tokens(cmd, {<<"&","&">>, <<"|","|">>, <<";">>}, 1, <<>>)} |->
        [k \in 1..Len(segments) |-> remap_cmd(summarize_main_tokens(segments[k]), shlex_join(segments[k]))]])

InitSimplify ==
    /\ command \in SimplifyArgvs
    /\ pc = "simplifying"
    /\ safe = FALSE
    /\ parsed = SegmentRecords(command)

\* One turn of the loop: simplify_once returned Some(next).
SimplifyOnce ==
    /\ pc = "simplifying"
    /\ simplify_once(parsed) # None
    /\ parsed' = simplify_once(parsed)[1]
    /\ UNCHANGED <<command, pc, safe>>

\* The loop ends: simplify_once returned None.
SimplifyDone ==
    /\ pc = "simplifying"
    /\ simplify_once(parsed) = None
    /\ pc' = "simplified"
    /\ UNCHANGED <<command, safe, parsed>>

SpecSimplify == InitSimplify /\ [][SimplifyOnce \/ SimplifyDone]_vars

\* The loop runs to its end: a turn that can be taken is taken.
SpecSimplifyFair ==
    InitSimplify /\ [][SimplifyOnce \/ SimplifyDone]_vars /\ WF_vars(SimplifyOnce \/ SimplifyDone)

(***************************************************************************)
(* Shapes of the command, as the specification names them                  *)
(***************************************************************************)

IsShellArgv(cmd) == Len(cmd) = 3 /\ cmd[1] \in {<<"b","a","s","h">>, <<"z","s","h">>} /\ cmd[2] = <<"-","l","c">>

IsPowerShellArgv(cmd) == try_extract_powershell_command_script(cmd) # None

IsCmdExeArgv(cmd) == parse_cmd_exe_commands(cmd) # None

PsScriptOf(cmd) == try_extract_powershell_command_script(cmd)[1]

\* The indices of s outside single and double quotes.
RECURSIVE UnquotedIndices(_, _)
UnquotedIndices(s, i) ==
    Let([open \in {skip_while(s, i, LAMBDA c : c \notin {"'", "\""})} |->
    IF open > Len(s) THEN i..Len(s)
    ELSE Let([quote \in {s[open]} |->
         Let([close \in {skip_while(s, open + 1, LAMBDA c : c # quote)} |->
             (i..(open - 1)) \cup (IF close > Len(s) THEN {} ELSE UnquotedIndices(s, close + 1))])])])

\* A redirection character, a backtick or a bare & outside quotes, at any position.
HasUnquotedShellHazard(s) ==
    \E k \in UnquotedIndices(s, 1) :
        \/ s[k] \in {">", "<", Backtick}
        \/ /\ s[k] = "&"
           /\ ~(k < Len(s) /\ s[k + 1] = "&")
           /\ ~(k > 1 /\ s[k - 1] = "&")

\* Every $( of the script, nested ones included, is closed and its inner command is a
\* safe argv.
EverySubstitutionSafe(s) ==
    \A k \in 1..(Len(s) - 1) :
        (s[k] = "$" /\ s[k + 1] = "(") =>
            Let([end \in {matching_paren(s, k + 2, 1)} |->
            Let([inner_tokens \in {shlex_split_or_whitespace(trim(SubSeq(s, k + 2, end - 1)))} |->
                end # 0 /\ inner_tokens # <<>> /\ is_safe_to_call_with_exec(inner_tokens)])])

(***************************************************************************)
(* C1 .. C10                                                               *)
(***************************************************************************)

\* C1: an argv that has one of the tokens > >> < |& among its elements is never
\* classified safe, whether or not it also has an operator token.
C1_RedirectionTokenIsUnsafe ==
    (pc = "classified" /\ \E k \in 1..Len(command) : command[k] \in ExecRedirections) => safe = FALSE

\* The state in which C1 fails: ls > foo, an argv with a redirection token and no
\* operator token, is classified safe.
C1_FailingInput ==
    pc = "classified" /\ command = <<<<"l","s">>, <<">">>, <<"f","o","o">>>> /\ safe = TRUE

\* C2: a bash/zsh -lc script with a redirection character, a backtick or a bare &
\* outside quotes, at any position (inside a substitution too), is never classified safe.
C2_ShellHazardIsUnsafe ==
    (pc = "classified" /\ IsShellArgv(command) /\ HasUnquotedShellHazard(command[3])) => safe = FALSE

\* The state in which C2 fails: the redirection sits inside a substitution.
C2_FailingInput ==
    pc = "classified" /\ command = <<<<"b","a","s","h">>, <<"-","l","c">>, <<"e","c","h","o"," ","$","(","l","s"," ",">"," ","o",")">>>> /\ safe = TRUE

\* C3: a bash/zsh -lc script with substitutions is classified safe only if every
\* substitution, nested ones included, is closed and has a safe inner command.
C3_SubstitutionsVettedRecursively ==
    (pc = "classified" /\ IsShellArgv(command) /\ contains(command[3], <<"$","(">>) /\ safe = TRUE)
        => EverySubstitutionSafe(command[3])

\* The state in which C3 fails: the nested substitution runs rm.
C3_FailingInput ==
    pc = "classified" /\ command = <<<<"b","a","s","h">>, <<"-","l","c">>, <<"e","c","h","o"," ","$","(","e","c","h","o"," ","$","(","r","m"," ","x",")",")">>>> /\ safe = TRUE

\* C4: a PowerShell argv whose script has a > outside quotes is never classified safe;
\* no fallback overrides the redirection scan.
C4_PowerShellRedirectIsUnsafe ==
    (pc = "classified" /\ IsPowerShellArgv(command) /\ unquoted_redirect(PsScriptOf(command)))
        => safe = FALSE

\* The state in which C4 fails: the parsed-summary fallback accepts ls > o.txt.
C4_FailingInput ==
    pc = "classified" /\ command = <<<<"p","w","s","h">>, <<"-","C","o","m","m","a","n","d">>, <<"l","s"," ",">"," ","o",".","t","x","t">>>> /\ safe = TRUE

\* C5: a PowerShell argv is never classified safe when some top-level segment of its
\* script has a banned alias (rm, del, rmdir, mkdir) as first command-like token.
C5_BannedAliasIsUnsafe ==
    (/\ pc = "classified"
     /\ IsPowerShellArgv(command)
     /\ Let([segments \in {split_top_level_segments(PsScriptOf(command))} |->
        \E k \in 1..Len(segments) : has_banned_alias(segments[k])]))
        => safe = FALSE

\* The state in which C5 fails: rm next to a Get-Content.
C5_FailingInput ==
    pc = "classified" /\ command = <<<<"p","w","s","h">>, <<"-","C","o","m","m","a","n","d">>, <<"r","m"," ","f","o","o",";"," ","G","e","t","-","C","o","n","t","e","n","t"," ","a",".","t","x","t">>>> /\ safe = TRUE

\* A segment that starts with an external command other than type whose tokens, taken
\* as an argv, are not known safe.
IsUnsafeExternalSegment(seg) ==
    /\ is_plain_command_segment(seg)
    /\ first_command_token(split_simple_tokens(seg)) # Some(<<"t","y","p","e">>)
    /\ ~is_known_safe_command(split_simple_tokens(seg))

\* C6: a PowerShell argv is classified safe only if every top-level segment that
\* starts with an external command passes is_known_safe_command as an argv.
C6_ExternalCommandsVetted ==
    (/\ pc = "classified"
     /\ IsPowerShellArgv(command)
     /\ Let([segments \in {split_top_level_segments(PsScriptOf(command))} |->
        \E k \in 1..Len(segments) : IsUnsafeExternalSegment(segments[k])]))
        => safe = FALSE

\* The state in which C6 fails: cargo test next to a Get-Content.
C6_FailingInput ==
    pc = "classified" /\ command = <<<<"p","w","s","h">>, <<"-","C","o","m","m","a","n","d">>, <<"G","e","t","-","C","o","n","t","e","n","t"," ","a",".","t","x","t",";"," ","c","a","r","g","o"," ","t","e","s","t">>>> /\ safe = TRUE

\* The mutating substrings that C7 lists.
C7Substrings ==
    {<<" ","s","e","t","-">>, <<" ","r","e","m","o","v","e","-">>, <<" ","n","e","w","-">>, <<" ","c","o","p","y","-">>, <<" ","m","o","v","e","-">>, <<" ","s","t","a","r","t","-">>, <<" ","s","t","o","p","-">>,
     <<" ","r","e","s","t","a","r","t","-">>, <<" ","i","n","v","o","k","e","-">>, <<" ","a","d","d","-">>, <<" ","c","l","e","a","r","-">>, <<" ","r","e","n","a","m","e","-">>}

HasMutatingSubstring(script) ==
    Let([lower \in {to_ascii_lowercase(script)} |->
    \/ \E b \in C7Substrings : contains(lower, b)
    \/ contains(lower, <<" ","o","u","t","-">>) /\ ~contains(lower, <<" ","o","u","t","-","s","t","r","i","n","g">>)
    \/ contains(lower, <<" ","w","r","i","t","e","-">>) /\ ~contains(lower, <<" ","w","r","i","t","e","-","o","u","t","p","u","t">>) /\ ~contains(lower, <<" ","w","r","i","t","e","-","h","o","s","t">>)])

\* C7: a PowerShell argv whose script contains one of the mutating substrings is never
\* classified safe.
C7_MutatingSubstringIsUnsafe ==
    (pc = "classified" /\ IsPowerShellArgv(command) /\ HasMutatingSubstring(PsScriptOf(command)))
        => safe = FALSE

\* The state in which C7 fails: Copy-Item next to a Get-Content.
C7_FailingInput ==
    pc = "classified" /\ command = <<<<"p","w","s","h">>, <<"-","C","o","m","m","a","n","d">>, <<"G","e","t","-","C","o","n","t","e","n","t"," ","a",".","t","x","t",";"," ","C","o","p","y","-","I","t","e","m"," ","a"," ","b">>>> /\ safe = TRUE

\* Every top-level segment of the script starts with a cmdlet.
OnlyCmdletSegments(script) ==
    Let([segments \in {split_top_level_segments(script)} |->
    /\ segments # <<>>
    /\ \A k \in 1..Len(segments) :
           Let([first \in {first_command_token(split_simple_tokens(segments[k]))} |->
           first # None /\ looks_like_cmdlet(first[1])])])

\* C8: a PowerShell argv whose script consists only of cmdlet invocations is
\* classified safe only if every hyphenated cmdlet token is in the allowlist.
C8_OnlyAllowlistedCmdlets ==
    (pc = "classified" /\ IsPowerShellArgv(command) /\ OnlyCmdletSegments(PsScriptOf(command)) /\ safe = TRUE)
        => ps_allowlist_scan(PsScriptOf(command))

\* The state in which C8 fails: Export-Csv next to a Get-Content.
C8_FailingInput ==
    pc = "classified" /\ command = <<<<"p","w","s","h">>, <<"-","C","o","m","m","a","n","d">>, <<"G","e","t","-","C","o","n","t","e","n","t"," ","a",".","t","x","t"," ","|"," ","E","x","p","o","r","t","-","C","s","v"," ","b">>>> /\ safe = TRUE

\* The programs that C9 lists.
C9Heads ==
    {<<"c","a","t">>, <<"c","d">>, <<"e","c","h","o">>, <<"f","a","l","s","e">>, <<"g","r","e","p">>, <<"h","e","a","d">>, <<"l","s">>, <<"n","l">>, <<"p","w","d">>,
     <<"t","a","i","l">>, <<"t","r","u","e">>, <<"w","c">>, <<"w","h","i","c","h">>, <<"f","i","n","d">>, <<"r","g">>, <<"g","i","t">>, <<"c","a","r","g","o">>, <<"b","a","z","e","l">>,
     <<"s","e","d">>}

\* C9: an argv (the empty one included) whose head is not an allowlisted program and
\* which is not a shell-wrapper shape is never classified safe.
C9_UnlistedHeadIsUnsafe ==
    (/\ pc = "classified"
     /\ command = <<>> \/ command[1] \notin C9Heads
     /\ ~IsShellArgv(command) /\ ~IsPowerShellArgv(command) /\ ~IsCmdExeArgv(command))
        => safe = FALSE

\* The state in which C9 fails: the head is an operator token.
C9_FailingInput ==
    pc = "classified" /\ command = <<<<";">>, <<"l","s">>>> /\ safe = TRUE

\* C10: parse_command returns at least one record for every argv.
C10_ParseIsNonEmpty == pc = "parsed" => parsed # <<>>

\* The states in which C10 fails: an argv and a bash -lc script made only of cd.
C10_FailingInput ==
    pc = "parsed" /\ command \in {<<<<"c","d">>, <<"f","o","o">>>>, <<<<"b","a","s","h">>, <<"-","l","c">>, <<"c","d"," ","f","o","o">>>>} /\ parsed = <<>>

\* The records of seq that differ from the record before them, in order.
WithoutAdjacentRepeats(seq) ==
    Let([keep \in {{i \in 1..Len(seq) : i = 1 \/ seq[i] # seq[i - 1]}} |->
        [k \in 1..Cardinality(keep) |->
            seq[CHOOSE i \in keep : Cardinality({j \in keep : j <= i}) = k]]])

\* C11: no two adjacent records returned by parse_command are equal, and the result
\* is the input of the dedup pass with only the repeated adjacent records removed.
C11_AdjacentRecordsDiffer ==
    pc = "parsed" =>
        /\ \A k \in 1..(Len(parsed) - 1) : parsed[k] # parsed[k + 1]
        /\ parsed = WithoutAdjacentRepeats(parse_command_impl(command))

\* A state in which the dedup pass removed a repeated record.
C11_RepeatRemoved ==
    pc = "parsed" /\ Len(parse_command_impl(command)) > Len(parsed) /\ parsed # <<>>

(***************************************************************************)
(* The allowlisted programs with conditions: find, rg, git, sed            *)
(***************************************************************************)

\* The operator tokens at which an argv is partitioned into sub-argvs.
OperatorTokens == {<<"|">>, <<"&","&">>, <<"|","|">>, <<";">>}

HasOperatorToken(cmd) == \E i \in 1..Len(cmd) : cmd[i] \in OperatorTokens

\* The arguments of cmd up to its first operator token.
FirstSubArgv(cmd) ==
    SubSeq(cmd, 1, IF HasOperatorToken(cmd)
                   THEN (CHOOSE i \in 1..Len(cmd) :
                            cmd[i] \in OperatorTokens /\ \A j \in 1..(i - 1) : cmd[j] \notin OperatorTokens) - 1
                   ELSE Len(cmd))

\* The options of find that C12 lists.
C12Options ==
    {<<"-","e","x","e","c">>, <<"-","e","x","e","c","d","i","r">>, <<"-","o","k">>, <<"-","o","k","d","i","r">>, <<"-","d","e","l","e","t","e">>,
     <<"-","f","l","s">>, <<"-","f","p","r","i","n","t">>, <<"-","f","p","r","i","n","t","0">>, <<"-","f","p","r","i","n","t","f">>}

HasC12Option(cmd) == \E i \in 1..Len(cmd) : cmd[i] \in C12Options

\* C12 as stated: a find argv holding one of the listed options at any position is
\* never classified safe, and an operator-free find argv with none of them is safe.
C12_FindOptionAnywhereIsUnsafe ==
    (pc = "classified" /\ command # <<>> /\ command[1] = <<"f","i","n","d">>) =>
        /\ HasC12Option(command) => safe = FALSE
        /\ (~HasC12Option(command) /\ ~HasOperatorToken(command)) => safe = TRUE

\* C12, amended: the option counts when it is an argument of find itself, that is when
\* it stands before the first operator token.
C12_FindOptionOfFindIsUnsafe ==
    (pc = "classified" /\ command # <<>> /\ command[1] = <<"f","i","n","d">>) =>
        /\ HasC12Option(FirstSubArgv(command)) => safe = FALSE
        /\ (~HasC12Option(command) /\ ~HasOperatorToken(command)) => safe = TRUE

\* A find argv rejected for an option that follows other arguments.
C12_FindDeleteRejected ==
    pc = "classified" /\ command = <<<<"f","i","n","d">>, <<".">>, <<"-","d","e","l","e","t","e">>>> /\ safe = FALSE

\* The arguments of rg that C13 names.
IsC13Option(arg) ==
    \/ arg \in {<<"-","-","s","e","a","r","c","h","-","z","i","p">>, <<"-","z">>, <<"-","-","p","r","e">>, <<"-","-","h","o","s","t","n","a","m","e","-","b","i","n">>}
    \/ starts_with(arg, <<"-","-","p","r","e","=">>) \/ starts_with(arg, <<"-","-","h","o","s","t","n","a","m","e","-","b","i","n","=">>)

\* C13: an operator-free rg argv is classified safe exactly when none of its arguments
\* is --search-zip, -z, --pre or --hostname-bin or starts with --pre= or --hostname-bin=.
C13_RgSafeIffNoUnsafeOption ==
    (pc = "classified" /\ command # <<>> /\ command[1] = <<"r","g">> /\ ~HasOperatorToken(command)) =>
        (safe = ~\E i \in 2..Len(command) : IsC13Option(command[i]))

\* rg --pre=foo is rejected.
C13_PreWithValueRejected ==
    pc = "classified" /\ command = <<<<"r","g">>, <<"-","-","p","r","e","=","f","o","o">>>> /\ safe = FALSE

\* The arguments of sed that C14 names: in-place editing and an external script file.
IsC14Flag(arg) ==
    \/ starts_with(arg, <<"-","i">>)
    \/ starts_with(arg, <<"-","-","i","n","-","p","l","a","c","e">>)
    \/ arg = <<"-","f">>
    \/ starts_with(arg, <<"-","-","f","i","l","e">>)

\* C14: a sed argv holding an in-place or script-file flag at any position is never
\* classified safe.
C14_SedInPlaceOrFileIsUnsafe ==
    (/\ pc = "classified"
     /\ command # <<>> /\ command[1] = <<"s","e","d">>
     /\ \E i \in 2..Len(command) : IsC14Flag(command[i]))
        => safe = FALSE

\* The states in which C14 fails: the flag is the fourth element of the strict form,
\* or it directly follows -e.
C14_FailingInput ==
    /\ pc = "classified"
    /\ command \in {<<<<"s","e","d">>, <<"-","n">>, <<"1",",","5","p">>, <<"-","-","f","i","l","e","=","x">>>>, <<<<"s","e","d">>, <<"-","e">>, <<"-","i">>>>}
    /\ safe = TRUE

\* C15: an operator-free git argv is classified safe exactly when its second element
\* is branch, status, log, diff or show, whatever follows.
C15_GitSafeIffReadOnlySubcommand ==
    (pc = "classified" /\ command # <<>> /\ command[1] = <<"g","i","t">> /\ ~HasOperatorToken(command)) =>
        (safe = (/\ Len(command) >= 2
                 /\ command[2] \in {<<"b","r","a","n","c","h">>, <<"s","t","a","t","u","s">>, <<"l","o","g">>, <<"d","i","f","f">>, <<"s","h","o","w">>}))

\* git -C dir status is rejected: the subcommand is not the second element.
C15_GlobalOptionRejected ==
    pc = "classified" /\ command = <<<<"g","i","t">>, <<"-","C">>, <<"d","i","r">>, <<"s","t","a","t","u","s">>>> /\ safe = FALSE

\* The sub-argvs of cmd: its maximal runs of tokens that are not operator tokens.
SubArgvs(cmd) ==
    {SubSeq(cmd, a, b) : <<a, b>> \in
        {r \in (1..Len(cmd)) \X (1..Len(cmd)) :
            /\ r[1] <= r[2]
            /\ \A i \in r[1]..r[2] : cmd[i] \notin OperatorTokens
            /\ r[1] = 1 \/ cmd[r[1] - 1] \in OperatorTokens
            /\ r[2] = Len(cmd) \/ cmd[r[2] + 1] \in OperatorTokens}}

\* The argvs C16 is about: an operator token, and none of > >> < |&.
IsOperatorArgv(cmd) ==
    /\ HasOperatorToken(cmd)
    /\ ~\E i \in 1..Len(cmd) : cmd[i] \in {<<">">>, <<">",">">>, <<"<">>, <<"|","&">>}

\* C16 as stated: an argv with an operator token and no redirection token is classified
\* safe exactly when every non-empty sub-argv is itself safe.
C16_SafeIffEverySubArgvSafe ==
    (pc = "classified" /\ IsOperatorArgv(command)) =>
        (safe = \A part \in SubArgvs(command) : is_safe_to_call_with_exec(part))

\* C16, amended: exactly when there is a non-empty sub-argv and every one is itself safe.
C16_SafeIffSomeAndEverySubArgvSafe ==
    (pc = "classified" /\ IsOperatorArgv(command)) =>
        (safe = (/\ SubArgvs(command) # {}
                 /\ \A part \in SubArgvs(command) : is_safe_to_call_with_exec(part)))

\* A pipeline rejected for its second sub-argv, and one accepted.
C16_PipelineJudgedByParts ==
    /\ pc = "classified"
    /\ \/ command = <<<<"l","s">>, <<"|">>, <<"r","m">>>> /\ safe = FALSE
       \/ command = <<<<"l","s">>, <<"&","&">>, <<"c","d">>>> /\ safe = TRUE

(***************************************************************************)
(* Variable assignments in bash -lc / zsh -lc scripts                      *)
(***************************************************************************)

\* NAME=VALUE: NAME matches [A-Za-z_][A-Za-z0-9_]*, VALUE is not empty, and there is
\* no whitespace.
IsAssignment(s) ==
    \E eq \in 2..(Len(s) - 1) :
        /\ s[eq] = "="
        /\ is_ascii_alphabetic(s[1]) \/ s[1] = "_"
        /\ \A k \in 1..(eq - 1) : is_ascii_alphanumeric(s[k]) \/ s[k] = "_"
        /\ \A k \in 1..Len(s) : s[k] \notin Whitespace

\* The segment begins with an assignment and further tokens follow it.
HasAssignmentBeforeTokens(seg) ==
    Let([words \in {split_whitespace(seg)} |-> Len(words) >= 2 /\ IsAssignment(words[1])])

\* C17: a script with a segment that begins with an assignment followed by further
\* tokens, whatever whitespace separates them, is never classified safe; and a non-empty
\* segment that is not a safe command is accepted only if it is exactly NAME=VALUE.
C17_AssignmentPrefixIsUnsafe ==
    (pc = "classified" /\ IsShellArgv(command)) =>
        Let([segments \in {split_on_shell_operators(command[3])} |->
            /\ (\E k \in 1..Len(segments) : HasAssignmentBeforeTokens(segments[k])) => safe = FALSE
            /\ safe = TRUE =>
                  \A k \in 1..Len(segments) :
                      \/ segments[k] = <<>>
                      \/ IsAssignment(segments[k])
                      \/ is_safe_to_call_with_exec(split_whitespace(segments[k]))])

\* The state in which C17 fails: a tab between the assignment and the command.
C17_FailingInput ==
    pc = "classified" /\ command = <<<<"b","a","s","h">>, <<"-","l","c">>, <<"F","O","O","=","b","a","r","\t","l","s">>>> /\ safe = TRUE

(***************************************************************************)
(* The virtual working directory of the summariser                         *)
(***************************************************************************)

\* C19's join: an absolute operand stands alone, a relative one follows the cwd and
\* one separator.
C19Join(cwd, operand) ==
    IF operand[1] = "/" THEN operand
    ELSE IF cwd[Len(cwd)] = "/" THEN cwd \o operand
    ELSE cwd \o <<"/">> \o operand

\* The reads C19 expects of a sequence of cd and cat segments, walked from segment i
\* with the cwd (None before the first cd): the operand, its name and its path.
RECURSIVE CdCatReads(_, _, _)
CdCatReads(segs, i, cwd) ==
    IF i > Len(segs) THEN <<>>
    ELSE IF segs[i][1] = <<"c","d">>
         THEN CdCatReads(segs, i + 1, IF cwd = None THEN Some(segs[i][2]) ELSE Some(C19Join(cwd[1], segs[i][2])))
    ELSE <<[operand |-> segs[i][2],
            name |-> short_display_path(segs[i][2]),
            path |-> IF cwd = None THEN segs[i][2] ELSE C19Join(cwd[1], segs[i][2])]>>
             \o CdCatReads(segs, i + 1, cwd)

\* Each sequence with its two argvs and the reads expected of it, repeated adjacent
\* reads counted once.
CdCatCases ==
    {[argv |-> CdCatArgv(segs), script |-> CdCatScript(segs),
      reads |-> WithoutAdjacentRepeats(CdCatReads(segs, 1, None))] : segs \in CdCatSequences}

\* C19: the records of a sequence of cd and cat segments are the Read records of its
\* cat segments, each with the name of its operand and the path that the cwd, as the
\* earlier cd segments made it, gives the operand.
C19_ReadPathsFollowCd ==
    pc = "parsed" =>
        \A c \in CdCatCases :
            command \in {c.argv, c.script} =>
                /\ Len(parsed) = Len(c.reads)
                /\ \A k \in 1..Len(parsed) :
                       /\ parsed[k].kind = "Read"
                       /\ parsed[k].name = Some(c.reads[k].name)
                       /\ parsed[k].path = Some(c.reads[k].path)

\* cd foo && cat a.txt is summarised as one Read of foo/a.txt, named a.txt.
C19_CdThenCat ==
    /\ pc = "parsed"
    /\ command = <<<<"c","d">>, <<"f","o","o">>, <<"&","&">>, <<"c","a","t">>, <<"a",".","t","x","t">>>>
    /\ Len(parsed) = 1
    /\ parsed[1].kind = "Read" /\ parsed[1].path = Some(<<"f","o","o","/","a",".","t","x","t">>) /\ parsed[1].name = Some(<<"a",".","t","x","t">>)

\* A non-empty string of digits.
IsInteger(s) == s # <<>> /\ \A k \in 1..Len(s) : is_ascii_digit(s[k])

\* The strict form sed -n <RANGE> [FILE].
IsStrictSed(cmd) ==
    /\ Len(cmd) \in {3, 4}
    /\ cmd[2] = <<"-","n">>
    /\ is_valid_sed_n_arg(Some(cmd[3]))
    /\ Len(cmd) = 4 => cmd[4] # <<>>

\* The flag whitelist of C18 for the argument at index i, which starts with "-".
PassesSedWhitelist(cmd, i) ==
    \/ Len(cmd[i]) > 1 /\ \A k \in 2..Len(cmd[i]) : cmd[i][k] \in {"n", "E", "r", "u", "s", "z"}
    \/ cmd[i] = <<"-","e">> /\ i < Len(cmd)
    \/ cmd[i] = <<"-","l">> /\ i < Len(cmd) /\ IsInteger(cmd[i + 1])
    \/ starts_with(cmd[i], <<"-","-","l","i","n","e","-","l","e","n","g","t","h","=">>) /\ IsInteger(From(cmd[i], Len(<<"-","-","l","i","n","e","-","l","e","n","g","t","h","=">>) + 1))
    \/ cmd[i] \in {<<"-","-","q","u","i","e","t">>, <<"-","-","s","i","l","e","n","t">>, <<"-","-","r","e","g","e","x","p","-","e","x","t","e","n","d","e","d">>, <<"-","-","u","n","b","u","f","f","e","r","e","d">>, <<"-","-","n","u","l","l","-","d","a","t","a">>}
    \/ starts_with(cmd[i], <<"-","-","e","x","p","r","e","s","s","i","o","n","=">>)

\* C18: an operator-free sed argv outside the strict form is classified safe exactly
\* when every argument that starts with "-" passes the flag whitelist and an -e or
\* --expression flag is among the arguments.
C18_SedSafeIffWhitelisted ==
    (/\ pc = "classified"
     /\ command # <<>> /\ command[1] = <<"s","e","d">>
     /\ ~HasOperatorToken(command) /\ ~IsStrictSed(command))
        => (safe = (/\ \A i \in 2..Len(command) :
                          starts_with(command[i], <<"-">>) => PassesSedWhitelist(command, i)
                    /\ \E i \in 2..Len(command) :
                          command[i] = <<"-","e">> \/ starts_with(command[i], <<"-","-","e","x","p","r","e","s","s","i","o","n">>)))

\* The states in which C18 fails: -l with an empty value, and --line-length with its
\* value as the next argument.
C18_FailingInput ==
    /\ pc = "classified"
    /\ command \in {<<<<"s","e","d">>, <<"-","l">>, <<>>, <<"-","-","e","x","p","r","e","s","s","i","o","n","=","p">>>>,
                    <<<<"s","e","d">>, <<"-","-","l","i","n","e","-","l","e","n","g","t","h">>, <<"5">>, <<"-","-","e","x","p","r","e","s","s","i","o","n","=","p">>>>}
    /\ safe = TRUE

(***************************************************************************)
(* cat                                                                     *)
(***************************************************************************)

\* The positional operands of a cat argv: everything after a leading `--`, otherwise
\* the arguments that are not flags.
CatOperands(tail) ==
    IF tail # <<>> /\ tail[1] = <<"-","-">> THEN Tail(tail)
    ELSE SelectSeq(tail, LAMBDA t : ~starts_with(t, <<"-">>))

\* C24: a cat argv is summarised as a Read of its operand exactly when it has one
\* positional operand after an optional leading `--`, flags not counted, and as
\* Unknown otherwise.
C24_CatReadIffOnePositional ==
    (pc = "parsed" /\ command # <<>> /\ command[1] = <<"c","a","t">>) =>
        Let([operands \in {CatOperands(Tail(command))} |->
            /\ Len(parsed) = 1
            /\ parsed[1] = summarize_main_tokens(command)
            /\ IF Len(operands) = 1
               THEN /\ parsed[1].kind = "Read"
                    /\ parsed[1].path = Some(operands[1])
                    /\ parsed[1].name = Some(short_display_path(operands[1]))
               ELSE parsed[1].kind = "Unknown"])

\* The states in which C24 fails: a lone flag is read as a file, and a flag before
\* the file hides the file.
C24_FailingInput ==
    /\ pc = "parsed"
    /\ \/ command = <<<<"c","a","t">>, <<"-","n">>>> /\ parsed = <<Read(<<"c","a","t"," ","-","n">>, <<"-","n">>, <<"-","n">>)>>
       \/ command = <<<<"c","a","t">>, <<"-","n">>, <<"a",".","t","x","t">>>> /\ parsed = <<Unknown(<<"c","a","t"," ","-","n"," ","a",".","t","x","t">>)>>

(***************************************************************************)
(* Get-Content and type                                                    *)
(***************************************************************************)

\* The files the statements name, in script order.
RECURSIVE NamedFiles(_)
NamedFiles(stmts) ==
    IF stmts = <<>> THEN <<>> ELSE stmts[1].files \o NamedFiles(Tail(stmts))

\* The files from the i-th on whose short display name is not among the names seen.
RECURSIVE FirstOfEachName(_, _, _)
FirstOfEachName(files, i, seen) ==
    IF i > Len(files) THEN <<>>
    ELSE IF short_display_path(files[i]) \in seen THEN FirstOfEachName(files, i + 1, seen)
    ELSE <<files[i]>> \o FirstOfEachName(files, i + 1, seen \cup {short_display_path(files[i])})

\* Each script of Get-Content and type statements with its argv and the files expected
\* of it: those it names, in script order, the first of each short display name.
GetContentCases ==
    {[argv |-> <<<<"p","w","s","h">>, <<"-","C","o","m","m","a","n","d">>, GetContentScript(stmts)>>,
      script |-> GetContentScript(stmts),
      files |-> FirstOfEachName(NamedFiles(stmts), 1, {})] : stmts \in GetContentSequences}

\* C25: a script of Get-Content and type statements is summarised as one Read per file
\* it names with -Path or positionally, in the order in which the files first occur in
\* the script, a later file with an already seen short display name being dropped.
C25_OneReadPerNamedFile ==
    pc = "parsed" =>
        \A c \in GetContentCases :
            command = c.argv =>
                parsed = [k \in 1..Len(c.files) |->
                             Read(c.script, short_display_path(c.files[k]), c.files[k])]

\* The state in which C25 fails: the file of the second -Path has no record.
C25_FailingInput ==
    /\ pc = "parsed"
    /\ command = <<<<"p","w","s","h">>, <<"-","C","o","m","m","a","n","d">>, <<"G","e","t","-","C","o","n","t","e","n","t"," ","-","P","a","t","h"," ","c",".","t","x","t",";"," ","G","e","t","-","C","o","n","t","e","n","t"," ","-","P","a","t","h"," ","b",".","t","x","t",",","a",".","t","x","t">>>>
    /\ parsed = <<Read(<<"G","e","t","-","C","o","n","t","e","n","t"," ","-","P","a","t","h"," ","c",".","t","x","t",";"," ","G","e","t","-","C","o","n","t","e","n","t"," ","-","P","a","t","h"," ","b",".","t","x","t",",","a",".","t","x","t">>, <<"c",".","t","x","t">>, <<"c",".","t","x","t">>)>>

(***************************************************************************)
(* zsh -lc and bash -lc                                                    *)
(***************************************************************************)

\* C20: the summary of zsh -lc script is the summary of bash -lc script.
C20_ZshParsesAsBash ==
    (pc = "parsed" /\ IsShellArgv(command)) =>
        parsed = parse_command(<<<<"b","a","s","h">>, <<"-","l","c">>, command[3]>>)

\* The state in which C20 fails: a redirection is summarised as a listing under zsh
\* and as an unknown command under bash.
C20_FailingInput ==
    /\ pc = "parsed"
    /\ command = <<<<"z","s","h">>, <<"-","l","c">>, <<"l","s"," ",">"," ","o">>>>
    /\ parsed # parse_command(<<<<"b","a","s","h">>, <<"-","l","c">>, <<"l","s"," ",">"," ","o">>>>)

(***************************************************************************)
(* The simplifier                                                          *)
(***************************************************************************)

\* C21: simplification is idempotent: simplifying a simplified sequence changes nothing.
C21_SimplifyIsIdempotent ==
    /\ simplify(simplify(parsed)) = simplify(parsed)
    /\ pc = "simplified" => simplify(parsed) = parsed

\* The loop has ended after removing records: echo hi && true && ls gives ls alone.
C21_SimplifiedToOne ==
    /\ pc = "simplified"
    /\ command = <<<<"e","c","h","o">>, <<"h","i">>, <<"&","&">>, <<"t","r","u","e">>, <<"&","&">>, <<"l","s">>>>
    /\ Len(parsed) = 1 /\ parsed[1].kind = "ListFiles"

\* An Unknown record whose cmd is exactly true.
IsTrueRecord(p) == p.kind = "Unknown" /\ p.cmd = <<"t","r","u","e">>

\* C22: the sequence the simplifier ends with holds no true record, and it is the
\* simplified sequence of the other segments' records.
C22_NoTrueAfterSimplify ==
    pc = "simplified" =>
        /\ \A k \in 1..Len(parsed) : ~IsTrueRecord(parsed[k])
        /\ parsed = simplify(SelectSeq(SegmentRecords(command), LAMBDA p : ~IsTrueRecord(p)))

\* The state in which C22 fails: echo hi && true ends as the true record alone.
C22_FailingInput ==
    /\ pc = "simplified"
    /\ command = <<<<"e","c","h","o">>, <<"h","i">>, <<"&","&">>, <<"t","r","u","e">>>>
    /\ parsed = <<Unknown(<<"t","r","u","e">>)>>
    /\ parse_command(command) = parsed

(***************************************************************************)
(* Small formatting helpers in bash -lc pipelines                          *)
(***************************************************************************)

\* The segments C23 calls small formatting helpers.
IsSmallHelper(tokens) ==
    \/ tokens[1] \in {<<"w","c">>, <<"t","r">>, <<"c","u","t">>, <<"s","o","r","t">>, <<"u","n","i","q">>, <<"x","a","r","g","s">>, <<"t","e","e">>,
                      <<"c","o","l","u","m","n">>, <<"a","w","k">>, <<"y","e","s">>, <<"p","r","i","n","t","f">>}
    \/ tokens[1] \in {<<"h","e","a","d">>, <<"t","a","i","l">>} /\ Len(tokens) < 3
    \/ /\ tokens[1] = <<"s","e","d">>
       /\ ~(Len(tokens) = 4 /\ tokens[2] = <<"-","n">> /\ is_valid_sed_n_arg(Some(tokens[3])))

\* A record without its cmd.
Summary(p) == [kind |-> p.kind, name |-> p.name, path |-> p.path, query |-> p.query]

\* The same with the sed rule read as the form's beginning: sed is a helper unless it
\* has at least four tokens and starts with sed -n <valid RANGE>.
IsSmallHelperByPrefix(tokens) ==
    IF tokens[1] = <<"s","e","d">>
    THEN ~(Len(tokens) >= 4 /\ tokens[2] = <<"-","n">> /\ is_valid_sed_n_arg(Some(tokens[3])))
    ELSE IsSmallHelper(tokens)

\* Each pipeline with its argv, its raw script and the records of the segments that
\* are not helpers, in script order, repeated adjacent records counted once.
PipelineCasesFor(IsHelper(_)) ==
    {[argv |-> <<<<"b","a","s","h">>, <<"-","l","c">>, PipelineScript(segs)>>,
      script |-> PipelineScript(segs),
      kept |-> WithoutAdjacentRepeats(
                   [k \in 1..Len(SelectSeq(segs, LAMBDA t : ~IsHelper(t))) |->
                       summarize_main_tokens(SelectSeq(segs, LAMBDA t : ~IsHelper(t))[k])])]
        : segs \in PipelineSequences}

PipelineCases == PipelineCasesFor(IsSmallHelper)

PipelineCasesByPrefix == PipelineCasesFor(IsSmallHelperByPrefix)

\* The summary of the command is the one the case expects.
IsSummaryOf(c) ==
    IF c.kept = <<>> THEN parsed = <<Unknown(c.script)>>
    ELSE /\ Len(parsed) = Len(c.kept)
         /\ \A k \in 1..Len(parsed) : Summary(parsed[k]) = Summary(c.kept[k])

CmdCasesAsStated ==
    {[text |-> <<"t","y","p","e"," ","a",".","t","x","t">>,                   summary |-> Summary(Read(<<>>, <<"a",".","t","x","t">>, <<"a",".","t","x","t">>))],
     [text |-> <<"T","Y","P","E"," ","s","u","b","/","b",".","t","x","t">>,               summary |-> Summary(Read(<<>>, <<"b",".","t","x","t">>, <<"s","u","b","/","b",".","t","x","t">>))],
     [text |-> <<"t","y","p","e"," ","a",".","t","x","t"," ","|"," ","f","i","n","d","s","t","r"," ","\"","x","\"">>,   summary |-> Summary(Read(<<>>, <<"a",".","t","x","t">>, <<"a",".","t","x","t">>))],
     [text |-> <<"t","y","p","e","p","e","r","f"," ","a",".","l","o","g">>,               summary |-> Summary(Read(<<>>, <<"a",".","l","o","g">>, <<"a",".","l","o","g">>))],
     [text |-> <<"t","y","p","e">>,                         summary |-> Summary(Unknown(<<>>))],
     [text |-> <<"t","y","p","e"," ","n","u","l">>,                     summary |-> Summary(Unknown(<<>>))],
     [text |-> <<"t","y","p","e"," ","|"," ","f","i","n","d","s","t","r"," ","\"","x","\"">>,         summary |-> Summary(Search(<<>>, Some(<<"x">>), None))],
     [text |-> <<"d","i","r">>,                          summary |-> Summary(ListFiles(<<>>, None))],
     [text |-> <<"D","I","R"," ","/","b"," ","s","r","c">>,                   summary |-> Summary(ListFiles(<<>>, None))],
     [text |-> <<"d","i","r","e","c","t","o","r","y",".","e","x","e"," ","a",".","t","x","t">>,          summary |-> Summary(ListFiles(<<>>, None))],
     [text |-> <<"d","i","r"," ","|"," ","f","i","n","d","s","t","r"," ","\"","x","\"">>,          summary |-> Summary(ListFiles(<<>>, None))],
     [text |-> <<"f","i","n","d","s","t","r"," ","/","s"," ","\"","f","o","o"," ","b","a","r","\""," ","*",".","r","s">>,  summary |-> Summary(Search(<<>>, Some(<<"f","o","o"," ","b","a","r">>), None))],
     [text |-> <<"F","I","N","D","S","T","R"," ","'","a","'"," ","\"","b","\"">>,            summary |-> Summary(Search(<<>>, Some(<<"a">>), None))],
     [text |-> <<"f","i","n","d","s","t","r"," ","\"","\""," ","\"","q","\"">>,           summary |-> Summary(Search(<<>>, Some(<<"q">>), None))],
     [text |-> <<"f","i","n","d","s","t","r"," ","f","o","o">>,                  summary |-> Summary(Search(<<>>, None, None))],
     [text |-> <<"e","c","h","o"," ","h","i">>,                      summary |-> Summary(Unknown(<<>>))]}

\* The same with `type` taken as the script's first word: typeperf is not type.
CmdCasesByWord ==
    {c \in CmdCasesAsStated : c.text # <<"t","y","p","e","p","e","r","f"," ","a",".","l","o","g">>}
        \cup {[text |-> <<"t","y","p","e","p","e","r","f"," ","a",".","l","o","g">>, summary |-> Summary(Unknown(<<>>))]}

\* The command is one of the cases behind a cmd.exe prefix, and its summary is the
\* single record the case expects, its cmd the prefix and the script joined by spaces.
CmdSummaryIsFrom(cases) ==
    \A p \in CmdPrefixes : \A c \in cases :
        command = p \o <<c.text>> =>
            /\ Len(parsed) = 1
            /\ Summary(parsed[1]) = c.summary
            /\ parsed[1].cmd = join(p, <<" ">>) \o <<" ">> \o c.text

IsNumber(s) == s # <<>> /\ \A i \in 1..Len(s) : s[i] \in {"0", "1", "2", "3", "4", "5", "6", "7", "8", "9"}

\* s matches ^(\d+,)?\d+p$: a number and p, or a number, a comma, a number and p.
MatchesRange(s) ==
    /\ Len(s) >= 2
    /\ s[Len(s)] = "p"
    /\ \/ IsNumber(SubSeq(s, 1, Len(s) - 1))
       \/ \E k \in 2..(Len(s) - 2) :
              /\ s[k] = ","
              /\ IsNumber(SubSeq(s, 1, k - 1))
              /\ IsNumber(SubSeq(s, k + 1, Len(s) - 1))

\* C27: on the range argument of a sed -n argv, missing or present, the two copies of
\* is_valid_sed_n_arg give the same answer, and they accept it exactly when it matches
\* ^(\d+,)?\d+p$; so sed -n RANGE FILE is classified safe when it matches, and is
\* summarised as a Read exactly when it matches.
C27_SedRangeCopiesAgree ==
    (Len(command) >= 2 /\ command[1] = <<"s","e","d">> /\ command[2] = <<"-","n">>) =>
        /\ is_valid_sed_n_arg(Get(command, 3)) = parse_command_is_valid_sed_n_arg(Get(command, 3))
        /\ parse_command_is_valid_sed_n_arg(Get(command, 3)) = (Len(command) >= 3 /\ MatchesRange(command[3]))
        /\ (pc = "classified" /\ Len(command) = 4 /\ MatchesRange(command[3])) => safe = TRUE
        /\ (pc = "parsed" /\ Len(command) = 4) =>
               /\ Len(parsed) = 1
               /\ (parsed[1].kind = "Read") = MatchesRange(command[3])

\* sed -n 1,2p f.txt is summarised as a Read and sed -n 1,p f.txt is not.
C27_RangeAcceptedAndRejected ==
    /\ pc = "parsed"
    /\ \/ command = <<<<"s","e","d">>, <<"-","n">>, <<"1",",","2","p">>, <<"f",".","t","x","t">>>> /\ parsed[1].kind = "Read"
       \/ command = <<<<"s","e","d">>, <<"-","n">>, <<"1",",","p">>, <<"f",".","t","x","t">>>> /\ parsed[1].kind = "Unknown"

(***************************************************************************)
(* split_top_level_segments                                                *)
(***************************************************************************)

\* The scan with two flags, one character per step: ' toggles in_squote outside double
\* quotes, " toggles in_dquote outside single quotes, ; and | met with both flags off
\* end the segment; a segment is emitted trimmed, and only if something is left of it.
RECURSIVE TwoFlagScan(_, _, _, _, _)
TwoFlagScan(s, i, in_squote, in_dquote, current) ==
    IF i > Len(s) THEN (IF trim(current) # <<>> THEN <<trim(current)>> ELSE <<>>)
    ELSE IF s[i] = "'" /\ ~in_dquote THEN TwoFlagScan(s, i + 1, ~in_squote, in_dquote, Append(current, s[i]))
    ELSE IF s[i] = "\"" /\ ~in_squote THEN TwoFlagScan(s, i + 1, in_squote, ~in_dquote, Append(current, s[i]))
    ELSE IF s[i] \in {";", "|"} /\ ~in_squote /\ ~in_dquote
         THEN (IF trim(current) # <<>> THEN <<trim(current)>> ELSE <<>>)
              \o TwoFlagScan(s, i + 1, FALSE, FALSE, <<>>)
    ELSE TwoFlagScan(s, i + 1, in_squote, in_dquote, Append(current, s[i]))

\* The number of quote characters of a string.
QuoteCount(s) == Cardinality({i \in 1..Len(s) : s[i] \in {"'", "\""}})

\* C28: the segments of a PowerShell script are those of the two-flag scan, which
\* splits at the ; and | outside quotes only; they are in script order, trimmed and
\* never empty, and they keep every quote character of the script.
C28_SplitsOutsideQuotesOnly ==
    (Len(command) = 3 /\ command[1] = <<"p","w","s","h">>) =>
        Let([segments \in {split_top_level_segments(command[3])} |->
            /\ segments = TwoFlagScan(command[3], 1, FALSE, FALSE, <<>>)
            /\ \A k \in 1..Len(segments) :
                   /\ segments[k] # <<>>
                   /\ ~is_whitespace(segments[k][1])
                   /\ ~is_whitespace(segments[k][Len(segments[k])])
            /\ QuoteCount(join(segments, <<>>)) = QuoteCount(command[3])])

\* The script ';'| has been parsed: the quoted ; does not split, the | ends the segment.
C28_QuotedDelimiterKept ==
    /\ pc = "parsed"
    /\ command = <<<<"p","w","s","h">>, <<"-","C","o","m","m","a","n","d">>, <<"'",";","'","|">>>>
    /\ split_top_level_segments(command[3]) = <<<<"'",";","'">>>>
    /\ parsed # <<>>

(***************************************************************************)
(* The steps of the simplify loop                                          *)
(***************************************************************************)

\* a is b with some of its elements left out, the others in their order.
IsSubsequence(a, b) ==
    \E f \in [1..Len(a) -> 1..Len(b)] :
        /\ \A k \in 1..Len(a) : b[f[k]] = a[k]
        /\ \A k \in 1..(Len(a) - 1) : f[k] < f[k + 1]

\* A turn of the loop takes a sequence of two or more records and leaves it without
\* one of them, the others in their order.
RemovesOneRecord ==
    parsed' # parsed =>
        /\ Len(parsed) >= 2
        /\ \E i \in 1..Len(parsed) :
               parsed' = [k \in 1..(Len(parsed) - 1) |-> IF k < i THEN parsed[k] ELSE parsed[k + 1]]

\* C29: every turn of the simplify loop removes exactly one record and keeps the others
\* in their order; simplify_once does not apply to fewer than two records; so the
\* records stay a subsequence of the input, a non-empty input never becomes empty (at
\* most len - 1 turns are taken), and the loop ends.
C29_SimplifyRemovesOneAtATime ==
    /\ [][RemovesOneRecord]_vars
    /\ [](/\ Len(parsed) <= 1 => simplify_once(parsed) = None
          /\ IsSubsequence(parsed, SegmentRecords(command))
          /\ SegmentRecords(command) # <<>> => parsed # <<>>)
    /\ <>(pc = "simplified")

\* cd foo && true && ls has been simplified in two turns to the record of ls.
C29_TwoTurns ==
    /\ pc = "simplified"
    /\ command = <<<<"c","d">>, <<"f","o","o">>, <<"&","&">>, <<"t","r","u","e">>, <<"&","&">>, <<"l","s">>>>
    /\ Len(SegmentRecords(command)) = 3
    /\ Len(parsed) = 1
    /\ parsed[1].kind = "ListFiles"

(***************************************************************************)
(* cd segments among other segments                                        *)
(***************************************************************************)

\* Each sequence with its argv and the records of the argv without its cd segments.
CdMixCases ==
    {[argv |-> CdCatArgv(segs),
      without |-> parse_command(CdCatArgv(SelectSeq(segs, LAMBDA t : t[1] # <<"c","d">>)))]
        : segs \in CdMixSequences}

\* The records are those of the case but for the path of the Read records.
SameButReadPaths(c) ==
    /\ Len(parsed) = Len(c.without)
    /\ \A k \in 1..Len(parsed) :
           /\ parsed[k].kind = c.without[k].kind
           /\ parsed[k].cmd = c.without[k].cmd
           /\ parsed[k].name = c.without[k].name
           /\ parsed[k].query = c.without[k].query
           /\ parsed[k].kind # "Read" => parsed[k].path = c.without[k].path

\* C30: the records of an argv with cd segments and at least one other segment hold no
\* record of a cd segment and are those of the argv without its cd segments, but for
\* the path of the Read records.
C30_CdChangesReadPathsOnly ==
    pc = "parsed" =>
        /\ \A k \in 1..Len(parsed) : ~unknown_with_head(parsed[k], <<"c","d">>)
        /\ \A c \in CdMixCases : command = c.argv => SameButReadPaths(c)

\* A record with the path of a Read left out.
WithoutReadPath(p) == IF p.kind = "Read" THEN [p EXCEPT !.path = None] ELSE p

WithoutReadPaths(records) == [k \in 1..Len(records) |-> WithoutReadPath(records[k])]

\* C30, amended: the same up to adjacent repeats: with the paths of the Read records
\* left out and repeated adjacent records counted once, the records are those of the
\* argv without its cd segments.
C30_CdChangesReadPathsOnlyUpToRepeats ==
    pc = "parsed" =>
        /\ \A k \in 1..Len(parsed) : ~unknown_with_head(parsed[k], <<"c","d">>)
        /\ \A c \in CdMixCases :
               command = c.argv =>
                   WithoutAdjacentRepeats(WithoutReadPaths(parsed))
                       = WithoutAdjacentRepeats(WithoutReadPaths(c.without))

\* ls && cd foo && cat a.txt is summarised as the ListFiles of ls and the Read of
\* foo/a.txt.
C30_CdBetweenLsAndCat ==
    /\ pc = "parsed"
    /\ command = <<<<"l","s">>, <<"&","&">>, <<"c","d">>, <<"f","o","o">>, <<"&","&">>, <<"c","a","t">>, <<"a",".","t","x","t">>>>
    /\ parsed = <<ListFiles(<<"l","s">>, None), Read(<<"c","a","t"," ","a",".","t","x","t">>, <<"a",".","t","x","t">>, <<"f","o","o","/","a",".","t","x","t">>)>>

====
